---- MODULE Spec2Model ----
(***************************************************************************)
(* A model of the semantic front end of the grass Sass compiler: the       *)
(* scoped environment (variables, !default / !global), nested rulesets,    *)
(* and the mixin machinery of src/src/atrule/mixin.rs (argument binding,   *)
(* body evaluation, @content).                                             *)
(*                                                                         *)
(* Token streams are modelled by the statements they parse to; a value     *)
(* expression is the sequence of its space separated items.                *)
(***************************************************************************)
EXTENDS Integers, Sequences, FiniteSets, TLC

VARIABLES
    global,   \* the module-root variable table
    local,    \* the variable table of the ruleset being evaluated
    sel,      \* the current parent selector (super_selector)
    mixins,   \* the mixin table of the current scope
    last,     \* the outcome of the last statement, with its inputs
    steps,    \* number of statements evaluated so far
    pc        \* "run", or "halt" once an error aborted the compilation

vars == <<global, local, sel, mixins, last, steps, pc>>

(***************************************************************************)
(* Bounds                                                                  *)
(***************************************************************************)
MaxSteps == 4
MaxDepth == 2
MaxBody == 2

Names == {"a", "b"}
SelNames == {"s"}

(***************************************************************************)
(* Values (src/src/value): only the variants the scope claims need.        *)
(***************************************************************************)
Undef == [kind |-> "undef", s |-> "", items |-> <<>>]
Null == [kind |-> "null", s |-> "", items |-> <<>>]
Ident(str) == [kind |-> "ident", s |-> str, items |-> <<>>]
List(xs) == [kind |-> "list", s |-> "space", items |-> xs]
ArgList(xs) == [kind |-> "arglist", s |-> "comma", items |-> xs]

Red == Ident("red")
Blue == Ident("blue")
Solid == Ident("solid")

is_true(v) == v.kind \notin {"null", "false"}

(***************************************************************************)
(* SassResult                                                              *)
(***************************************************************************)
Ok(v) == [ok |-> TRUE, val |-> v, err |-> ""]
Err(msg) == [ok |-> FALSE, val |-> Undef, err |-> msg]

(***************************************************************************)
(* Scope: a variable table; a miss falls through to the module root.       *)
(***************************************************************************)
EmptyScope == [n \in Names |-> Undef]

get_var(scope, root, name) ==
    IF scope[name] # Undef THEN Ok(scope[name])
    ELSE IF root[name] # Undef THEN Ok(root[name])
    ELSE Err("Undefined variable.")

insert_var(scope, name, v) == [scope EXCEPT ![name] = v]

(***************************************************************************)
(* Expressions: a sequence of items, each a literal or a $variable         *)
(***************************************************************************)
Lit(v) == [e |-> "lit", v |-> v, n |-> ""]
Var(n) == [e |-> "var", v |-> Undef, n |-> n]

\* a `$name` looked up in the module root only
parse_intermediate_value_root(item, scope, root) ==
    IF item.e = "var" THEN get_var(EmptyScope, root, item.n) ELSE Ok(item.v)

\* `$name` is replaced by the value the variable has now
parse_intermediate_value(item, scope, root) ==
    IF item.e = "var" THEN get_var(scope, root, item.n) ELSE Ok(item.v)

\* Value::from_tokens, the reduction: the first error, else the one value
\* itself, else the space separated list of the values
from_tokens_result(rs) ==
    IF \E i \in 1..Len(rs) : ~rs[i].ok
    THEN Err(rs[CHOOSE i \in 1..Len(rs) :
                 ~rs[i].ok /\ \A j \in 1..(i-1) : rs[j].ok].err)
    ELSE IF Len(rs) = 1 THEN Ok(rs[1].val)
    ELSE Ok(List([i \in 1..Len(rs) |-> rs[i].val]))

Value_from_vec(x, scope, root) ==
    from_tokens_result([i \in 1..Len(x) |-> parse_intermediate_value(x[i], scope, root)])

(***************************************************************************)
(* Identifiers with escapes (eat_ident) and declaration flags              *)
(***************************************************************************)
Ch(c) == [c |-> c, hex |-> <<>>]
Esc(h) == [c |-> "", hex |-> h]

RECURSIVE HexValue(_)
HexValue(h) == IF h = <<>> THEN 0 ELSE 16 * HexValue(SubSeq(h, 1, Len(h) - 1)) + h[Len(h)]

\* the characters of the model's alphabet, by code point
CodeChar(code) ==
    CASE code = 100 -> "d"
      [] code = 103 -> "g"
      [] code = 32 -> " "
      [] OTHER -> "?"

is_name_char(c) == c \notin {" ", "?"}

\* an identifier read without resolving its escapes
eat_ident_verbatim(raw) == raw

\* an escape is resolved to its character when that is valid in a name
eat_ident(raw) ==
    [i \in 1..Len(raw) |->
        IF raw[i].hex = <<>> THEN raw[i]
        ELSE IF is_name_char(CodeChar(HexValue(raw[i].hex)))
             THEN Ch(CodeChar(HexValue(raw[i].hex)))
             ELSE raw[i]]

Word(cs) == [i \in 1..Len(cs) |-> Ch(cs[i])]
GlobalWord == Word(<<"g", "l", "o", "b", "a", "l">>)
DefaultWord == Word(<<"d", "e", "f", "a", "u", "l", "t">>)
FooWord == Word(<<"f", "o", "o">>)
GlobalEscaped == <<Esc(<<6, 7>>)>> \o Tail(GlobalWord)
DefaultEscaped == <<Esc(<<6, 4>>)>> \o Tail(DefaultWord)
GlobalBadEscape == <<Esc(<<2, 0>>)>> \o Tail(GlobalWord)

FlagLists ==
    { <<>>, <<DefaultWord>>, <<GlobalWord>>, <<GlobalEscaped>>,
      <<DefaultEscaped, GlobalWord>>, <<FooWord>>, <<GlobalBadEscape>> }

has_flag(flags, word) == \E i \in 1..Len(flags) : eat_ident(flags[i]) = word

\* the flags that follow a value v
eat_flags(v, flags) ==
    IF ~v.ok THEN [err |-> v.err, val |-> Undef, default |-> FALSE, global |-> FALSE]
    ELSE IF \E i \in 1..Len(flags) : eat_ident(flags[i]) \notin {GlobalWord, DefaultWord}
    THEN [err |-> "Invalid flag name.", val |-> Undef, default |-> FALSE, global |-> FALSE]
    ELSE [err |-> "", val |-> v.val,
          default |-> has_flag(flags, DefaultWord),
          global |-> has_flag(flags, GlobalWord)]

\* `$name: expr !flag ...;` : the value and the flags of the declaration
eat_variable_value(x, flags, scope, root) == eat_flags(Value_from_vec(x, scope, root), flags)

\* a !default that looks only at whether the variable is defined
default_writes_unless_defined(default, cur) == ~default \/ ~cur.ok

\* !default writes only over an undefined or null variable
default_writes(default, cur) == ~default \/ ~cur.ok \/ cur.val = Null

\* where a declaration writes: "none", "global" (module root) or "local"
decl_target(default, glob, cur) ==
    IF ~default_writes(default, cur) THEN "none"
    ELSE IF glob THEN "global" ELSE "local"

(***************************************************************************)
(* Statements of the output tree                                           *)
(***************************************************************************)
Style(p, v) == [t |-> "style", p |-> p, v |-> v, sup |-> <<>>, sel |-> <<>>, rules |-> <<>>]
RuleSet(sup, sl, rules) ==
    [t |-> "ruleset", p |-> "", v |-> Undef, sup |-> sup, sel |-> sl, rules |-> rules]

\* Selector::zip for selectors without `&`: the descendant composition
zip(parent, child) == parent \o child

(***************************************************************************)
(* The statement driver of a stylesheet                                    *)
(***************************************************************************)
MixinNames == {"m"}
NoMixin == [defined |-> FALSE, scope |-> EmptyScope, args |-> <<>>, body |-> <<>>]
NoArgs == [pos |-> <<>>, named |-> <<>>]

NoLast ==
    [op |-> "none", err |-> "", stmts |-> <<>>, n |-> "", x |-> <<>>, flags |-> <<>>,
     default |-> FALSE, global |-> FALSE, val |-> Undef,
     prelocal |-> EmptyScope, preglobal |-> EmptyScope,
     mixin |-> NoMixin, bound |-> NoMixin, args |-> NoArgs,
     has_block |-> FALSE, block |-> <<>>, content |-> <<>>]

Items == {Lit(Red), Lit(Blue), Lit(Null), Var("a")}
Exprs == {<<i>> : i \in Items} \cup {<<Lit(Solid), Var("a")>>}

Running == pc = "run" /\ steps < MaxSteps

Finish(r) ==
    /\ last' = r
    /\ steps' = steps + 1
    /\ pc' = IF r.err = "" THEN "run" ELSE "halt"

\* the declaration d of $n takes effect
DeclStep(n, x, flags, d, target) ==
    /\ Finish([NoLast EXCEPT !.op = "decl", !.err = d.err, !.n = n, !.x = x,
                             !.flags = flags, !.default = d.default,
                             !.global = d.global, !.val = d.val,
                             !.prelocal = local, !.preglobal = global])
    /\ global' = IF d.err = "" /\ (target = "global" \/ (target = "local" /\ sel = <<>>))
                 THEN insert_var(global, n, d.val) ELSE global
    /\ local' = IF d.err = "" /\ target = "local" /\ sel # <<>>
                THEN insert_var(local, n, d.val) ELSE local

DeclTarget(n, d) == decl_target(d.default, d.global, get_var(local, global, n))

DeclOf(n, x, flags, d) == DeclStep(n, x, flags, d, DeclTarget(n, d))

\* `$n: x flags;` at statement level
VariableDecl(n, x, flags) ==
    /\ Running
    /\ DeclOf(n, x, flags, eat_variable_value(x, flags, local, global))
    /\ UNCHANGED <<sel, mixins>>

StyleStep(p, x, v) ==
    Finish([NoLast EXCEPT !.op = "style", !.err = v.err, !.x = x,
                          !.stmts = IF v.ok THEN <<Style(p, v.val)>> ELSE <<>>,
                          !.prelocal = local, !.preglobal = global])

\* `p: x;` inside a ruleset
StyleDecl(p, x) ==
    /\ Running
    /\ sel # <<>>
    /\ StyleStep(p, x, Value_from_vec(x, local, global))
    /\ UNCHANGED <<global, local, sel, mixins>>

\* `s {` : a nested ruleset is evaluated in the scope of the enclosing one
OpenRuleset(s) ==
    /\ Running
    /\ Len(sel) < MaxDepth
    /\ sel' = zip(sel, <<s>>)
    /\ Finish([NoLast EXCEPT !.op = "open", !.prelocal = local, !.preglobal = global])
    /\ UNCHANGED <<global, local, mixins>>

\* `}` : the scope of a top-level ruleset ends with it
CloseRuleset ==
    /\ Running
    /\ sel # <<>>
    /\ sel' = SubSeq(sel, 1, Len(sel) - 1)
    /\ local' = IF Len(sel) = 1 THEN EmptyScope ELSE local
    /\ Finish([NoLast EXCEPT !.op = "close", !.prelocal = local, !.preglobal = global])
    /\ UNCHANGED <<global, mixins>>

(***************************************************************************)
(* Statements of a block body, as the token stream parses to them          *)
(***************************************************************************)
SVar(n, x, d, g) == [k |-> "var", n |-> n, x |-> x, d |-> d, g |-> g, b |-> <<>>]
SStyle(p, x) == [k |-> "style", n |-> p, x |-> x, d |-> FALSE, g |-> FALSE, b |-> <<>>]
SContent == [k |-> "content", n |-> "", x |-> <<>>, d |-> FALSE, g |-> FALSE, b |-> <<>>]
SIf(x, b) == [k |-> "if", n |-> "", x |-> x, d |-> FALSE, g |-> FALSE, b |-> b]
SSel(s, b) == [k |-> "sel", n |-> s, x |-> <<>>, d |-> FALSE, g |-> FALSE, b |-> b]

\* the evaluation state of a block: its scope, the module root, the
\* statements produced so far and the error that ended it, if any
EvalState(scope, root) == [scope |-> scope, root |-> root, stmts |-> <<>>, err |-> ""]

\* eat_expr on `$n: x flags;` : the value, and where the flags send it
var_expr(s, scope, root, v) ==
    [err |-> v.err, val |-> v.val,
     target |-> IF v.ok THEN decl_target(s.d, s.g, get_var(scope, root, s.n))
                ELSE "none"]

eat_expr_var(s, scope, root) == var_expr(s, scope, root, Value_from_vec(s.x, scope, root))

\* eat_expr on `p: x;`
style_expr(s, v) == [err |-> v.err, stmt |-> Style(s.n, v.val)]

eat_expr_style(s, scope, root) == style_expr(s, Value_from_vec(s.x, scope, root))

\* a block evaluator met the declaration e of $n
block_variable_decl(st, n, e) ==
    [st EXCEPT !.err = e.err,
               !.scope = IF e.target = "local" THEN insert_var(st.scope, n, e.val) ELSE @,
               !.root = IF e.target = "global" THEN insert_var(st.root, n, e.val) ELSE @]

\* a block evaluator met the style e
block_style(st, e) ==
    [st EXCEPT !.err = e.err,
               !.stmts = IF e.err = "" THEN Append(@, e.stmt) ELSE @]

\* a block evaluator closes the nested ruleset `n { ... }` that ended in r
block_ruleset(st, sup, n, r) ==
    [r EXCEPT !.stmts = Append(st.stmts, RuleSet(sup, <<n>>, r.stmts))]

\* the branch of an @if whose condition evaluated to c
if_branch(st, c) ==
    IF ~c.ok THEN [body |-> <<>>, st |-> [st EXCEPT !.err = c.err]]
    ELSE IF ~is_true(c.val) THEN [body |-> <<>>, st |-> st]
    ELSE [body |-> <<1>>, st |-> st]

\* ruleset_eval: the statements of a block, evaluated in the scope passed in;
\* an @if runs its first truthy branch in that scope too (If::eval)
RECURSIVE ruleset_eval(_, _, _, _)
ruleset_step(s, st, sup, content) ==
    CASE s.k = "var" -> block_variable_decl(st, s.n, eat_expr_var(s, st.scope, st.root))
      [] s.k = "style" -> block_style(st, eat_expr_style(s, st.scope, st.root))
      [] s.k = "content" -> [st EXCEPT !.stmts = @ \o content]
      [] s.k = "sel" ->
           block_ruleset(st, sup, s.n,
               ruleset_eval(s.b, [st EXCEPT !.stmts = <<>>], zip(sup, <<s.n>>), content))
      [] OTHER ->
           IF if_branch(st, Value_from_vec(s.x, st.scope, st.root)).body = <<>>
           THEN if_branch(st, Value_from_vec(s.x, st.scope, st.root)).st
           ELSE ruleset_eval(s.b, st, sup, content)

ruleset_eval(body, st, sup, content) ==
    IF body = <<>> \/ st.err # "" THEN st
    ELSE ruleset_eval(Tail(body), ruleset_step(Head(body), st, sup, content), sup, content)

\* If::eval: the first truthy branch, evaluated in the scope passed in
If_eval(s, st, sup, content) == ruleset_eval(<<s>>, st, sup, content)

(***************************************************************************)
(* Mixins (src/src/atrule/mixin.rs)                                        *)
(***************************************************************************)
Param(name, has_default, default, is_variadic) ==
    [name |-> name, has_default |-> has_default, default |-> default,
     is_variadic |-> is_variadic]

Mixin_new(scope, args, body) ==
    [defined |-> TRUE, scope |-> scope, args |-> args, body |-> body]

\* Mixin::decl_from_tokens: the mixin captures a copy of the declaring scope
decl_from_tokens(scope, args, body) == Mixin_new(scope, args, body)

Named(name, x) == [name |-> name, x |-> x]
CallArgs(pos, named) == [pos |-> pos, named |-> named]

\* CallArgs::get: the positional argument at the index, else the keyword
\* argument of the name, evaluated in the scope of the call
CallArgs_get(args, idx, name, scope, root) ==
    IF idx + 1 <= Len(args.pos)
    THEN [found |-> TRUE, res |-> Value_from_vec(args.pos[idx + 1], scope, root)]
    ELSE IF \E i \in 1..Len(args.named) : args.named[i].name = name
    THEN [found |-> TRUE,
          res |-> Value_from_vec(
                     args.named[CHOOSE i \in 1..Len(args.named) :
                                    args.named[i].name = name].x, scope, root)]
    ELSE [found |-> FALSE, res |-> Err("")]

\* CallArgs::get_variadic: the positional arguments not consumed yet
CallArgs_get_variadic(args, idx, scope, root) ==
    LET rest == SubSeq(args.pos, idx + 1, Len(args.pos))
        rs == [i \in 1..Len(rest) |-> Value_from_vec(rest[i], scope, root)]
    IN IF \E i \in 1..Len(rest) : ~rs[i].ok
       THEN Err("Undefined variable.")
       ELSE Ok(ArgList([i \in 1..Len(rest) |-> rs[i].val]))

\* the scope a default value is evaluated in (mixin.rs:82 passes `scope`,
\* the scope of the caller, not self.scope)
default_scope(self_scope, caller_scope) == caller_scope

\* a parameter without argument or default that is bound to null
missing_argument_null(name) == Ok(Null)

\* Mixin::args: a parameter with no argument and no default
missing_argument(name) == Err("Missing argument $" \o name \o ".")

\* Mixin::args: the value of a parameter that args.get answered with g
arg_value(self, arg, g, scope, root) ==
    IF g.found THEN [taken |-> FALSE, res |-> g.res]
    ELSE IF arg.has_default
    THEN [taken |-> TRUE,
          res |-> Value_from_vec(arg.default, default_scope(self.scope, scope), root)]
    ELSE [taken |-> FALSE, res |-> missing_argument(arg.name)]

\* Mixin::args: self.scope.insert_var(mem::take(&mut arg.name), val)
bind_arg(idx, self, v) ==
    [self EXCEPT !.scope = insert_var(@, self.args[idx + 1].name, v.res.val),
                 !.args[idx + 1].name = "",
                 !.args[idx + 1].default = IF v.taken THEN <<>> ELSE @]

\* Mixin::args, from parameter idx on: binds the parameters in self.scope
RECURSIVE Mixin_args_from(_, _, _, _, _)
args_variadic(idx, self, v) ==
    IF ~v.ok THEN [err |-> v.err, mixin |-> self]
    ELSE [err |-> "", mixin |-> bind_arg(idx, self, [taken |-> FALSE, res |-> v])]

args_next(idx, self, args, scope, root, v) ==
    IF ~v.res.ok THEN [err |-> v.res.err, mixin |-> self]
    ELSE Mixin_args_from(idx + 1, bind_arg(idx, self, v), args, scope, root)

Mixin_args_from(idx, self, args, scope, root) ==
    IF idx >= Len(self.args) THEN [err |-> "", mixin |-> self]
    ELSE IF self.args[idx + 1].is_variadic
    THEN args_variadic(idx, self, CallArgs_get_variadic(args, idx, scope, root))
    ELSE args_next(idx, self, args, scope, root,
             arg_value(self, self.args[idx + 1],
                       CallArgs_get(args, idx, self.args[idx + 1].name, scope, root),
                       scope, root))

Mixin_args(self, args, scope, root) == Mixin_args_from(0, self, args, scope, root)

\* Mixin::eval, Expr::VariableDecl: self.scope.insert_var(&name, *val)
eval_variable_decl(st, n, e) == block_variable_decl(st, n, e)

\* Mixin::eval, Expr::Style
eval_style(st, e) == block_style(st, e)

\* a content block put in front of the statements produced so far
eval_content_first(st, content) == [st EXCEPT !.stmts = content \o @]

\* Mixin::eval, AtRule::Content: the content block is spliced in place
eval_content(st, content) == [st EXCEPT !.stmts = @ \o content]

\* Mixin::eval, AtRule::If: the branch r ran on a copy of self.scope
eval_if(st, r) ==
    [scope |-> st.scope, root |-> r.root, stmts |-> st.stmts \o r.stmts, err |-> r.err]

\* a nested block that runs on a copy of self.scope
eval_selector_copy(st, sup, n, r) ==
    [scope |-> st.scope, root |-> r.root,
     stmts |-> Append(st.stmts, RuleSet(sup, <<n>>, r.stmts)), err |-> r.err]

\* Mixin::eval, Expr::Selector: the nested block r ran on self.scope itself
eval_selector(st, sup, n, r) ==
    [scope |-> r.scope, root |-> r.root,
     stmts |-> Append(st.stmts, RuleSet(sup, <<n>>, r.stmts)), err |-> r.err]

RECURSIVE Mixin_eval(_, _, _, _)
eval_step(s, st, sup, content) ==
    CASE s.k = "var" -> eval_variable_decl(st, s.n, eat_expr_var(s, st.scope, st.root))
      [] s.k = "style" -> eval_style(st, eat_expr_style(s, st.scope, st.root))
      [] s.k = "content" -> eval_content(st, content)
      [] s.k = "if" -> eval_if(st, If_eval(s, [st EXCEPT !.stmts = <<>>], sup, content))
      [] OTHER ->
           eval_selector(st, sup, s.n,
               Mixin_eval(s.b, [st EXCEPT !.stmts = <<>>], zip(sup, <<s.n>>), content))

Mixin_eval(body, st, sup, content) ==
    IF body = <<>> \/ st.err # "" THEN st
    ELSE Mixin_eval(Tail(body), eval_step(Head(body), st, sup, content), sup, content)

\* Mixin::call
Mixin_call(self, root, sup, content) ==
    Mixin_eval(self.body, EvalState(self.scope, root), sup, content)

\* eat_include: the content block is evaluated on a copy of the scope
include_content(has_block, block, scope, root, sup) ==
    IF has_block THEN ruleset_eval(block, EvalState(scope, root), sup, <<>>)
    ELSE EvalState(scope, root)

\* a content block evaluated on the scope of the caller itself
include_scope_after_content(caller_scope, content_scope, mixin_scope) == content_scope

\* eat_include takes the scope of the caller by shared reference
include_scope_after(caller_scope, content_scope, mixin_scope) == caller_scope

\* eat_include: scope.get_mixin(name)?, then .args(args, scope, super_selector)?
include_args(mixin, args, scope, c) ==
    [c |-> c, m |-> Mixin_args(mixin, args, scope, c.root)]

\* eat_include: .call(super_selector, Some(&this_content))?
include_call(sup, b) ==
    [c |-> b.c, m |-> b.m, r |-> Mixin_call(b.m.mixin, b.c.root, sup, b.c.stmts)]

include_error(mixin, i) ==
    IF i.c.err # "" THEN i.c.err
    ELSE IF ~mixin.defined THEN "Undefined mixin."
    ELSE IF i.m.err # "" THEN i.m.err
    ELSE i.r.err

\* eat_include: the statements, or the first error met
include_result(scope, i, err) ==
    [err |-> err,
     stmts |-> IF err = "" THEN i.r.stmts ELSE <<>>,
     content |-> i.c.stmts,
     bound |-> i.m.mixin,
     scope |-> IF err = "" THEN include_scope_after(scope, i.c.scope, i.r.scope) ELSE scope,
     root |-> IF err = "" THEN i.r.root ELSE i.c.root]

include_outcome(mixin, scope, i) == include_result(scope, i, include_error(mixin, i))

eat_include(mixin, args, has_block, block, scope, root, sup) ==
    include_outcome(mixin, scope,
        include_call(sup,
            include_args(mixin, args, scope,
                include_content(has_block, block, scope, root, sup))))

Init ==
    /\ global = EmptyScope
    /\ local = EmptyScope
    /\ sel = <<>>
    /\ mixins = [m \in MixinNames |-> NoMixin]
    /\ last = NoLast
    /\ steps = 0
    /\ pc = "run"

Next ==
    \/ \E n \in Names, x \in Exprs, flags \in FlagLists : VariableDecl(n, x, flags)
    \/ \E x \in Exprs : StyleDecl("p", x)
    \/ \E s \in SelNames : OpenRuleset(s)
    \/ CloseRuleset

Spec == Init /\ [][Next]_vars

(***************************************************************************)
(* Mixin declarations and includes inside a ruleset                        *)
(***************************************************************************)
\* `@mixin m(params) { body }`
MixinDecl(m, params, body) ==
    /\ pc = "run"
    /\ ~mixins[m].defined
    /\ mixins' = [mixins EXCEPT ![m] = decl_from_tokens(local, params, body)]
    /\ Finish([NoLast EXCEPT !.op = "mixin", !.prelocal = local, !.preglobal = global])
    /\ UNCHANGED <<global, local, sel>>

IncludeStep(m, args, has_block, block, i) ==
    /\ Finish([NoLast EXCEPT !.op = "include", !.err = i.err, !.stmts = i.stmts,
                             !.prelocal = local, !.preglobal = global,
                             !.mixin = mixins[m], !.bound = i.bound, !.args = args,
                             !.has_block = has_block, !.block = block,
                             !.content = i.content])
    /\ local' = i.scope
    /\ global' = i.root

\* `@include m(args) { block }`
Include(m, args, has_block, block) ==
    /\ pc = "run"
    /\ last.op = "mixin"
    /\ IncludeStep(m, args, has_block, block,
           eat_include(mixins[m], args, has_block, block, local, global, sel))
    /\ UNCHANGED <<sel, mixins>>

\* the statements mixin bodies are made of
AssignA == SVar("a", <<Lit(Red)>>, FALSE, FALSE)
GlobalB == SVar("b", <<Var("a")>>, FALSE, TRUE)
ReadA == SStyle("p", <<Var("a")>>)
BodyStmts ==
    { AssignA, GlobalB, ReadA, SContent,
      SIf(<<Lit(Red)>>, <<AssignA>>),
      SSel("t", <<AssignA>>),
      SSel("t", <<SContent>>) }

SeqsUpTo(S, n) == UNION {[1..k -> S] : k \in 0..n}

Bodies == SeqsUpTo(BodyStmts, MaxBody)

NoDefault == <<>>
ParamLists ==
    { <<>>,
      <<Param("a", FALSE, NoDefault, FALSE), Param("b", TRUE, <<Var("a")>>, FALSE)>>,
      <<Param("a", TRUE, <<Lit(Blue)>>, FALSE), Param("b", FALSE, NoDefault, FALSE)>>,
      <<Param("a", FALSE, NoDefault, FALSE), Param("b", FALSE, NoDefault, TRUE)>> }

PositionalArgs == { <<>>, <<<<Lit(Blue)>>>>, <<<<Lit(Blue)>>, <<Lit(Solid)>>>> }
NamedArgs == { <<>>, <<Named("a", <<Lit(Solid)>>)>>, <<Named("z", <<Lit(Solid)>>)>> }
ContentBlocks ==
    { <<SStyle("q", <<Var("a")>>)>>,
      <<SVar("a", <<Lit(Solid)>>, FALSE, FALSE)>>,
      <<SVar("b", <<Lit(Solid)>>, FALSE, TRUE)>> }

ScopeInits == { EmptyScope, [EmptyScope EXCEPT !["a"] = Blue] }

InitMixin ==
    /\ global \in ScopeInits
    /\ local \in ScopeInits \cup {[EmptyScope EXCEPT !["b"] = Blue]}
    /\ sel \in {<<s>> : s \in SelNames}
    /\ mixins = [m \in MixinNames |-> NoMixin]
    /\ last = NoLast
    /\ steps = 0
    /\ pc = "run"

NextMixin ==
    \/ \E m \in MixinNames, params \in ParamLists, body \in Bodies :
           MixinDecl(m, params, body)
    \/ \E m \in MixinNames, pos \in PositionalArgs, named \in NamedArgs :
           \/ Include(m, CallArgs(pos, named), FALSE, <<>>)
           \/ \E block \in ContentBlocks : Include(m, CallArgs(pos, named), TRUE, block)

SpecMixin == InitMixin /\ [][NextMixin]_vars

(***************************************************************************)
(* Reference definitions used by the properties                            *)
(***************************************************************************)
\* the value of an expression once every $name in it is replaced by the
\* value the name has in the tables l (innermost) and g (module root)
RefItem(item, l, g) ==
    IF item.e = "lit" THEN item.v
    ELSE IF l[item.n] # Undef THEN l[item.n] ELSE g[item.n]

RefValue(x, l, g) ==
    IF Len(x) = 1 THEN RefItem(x[1], l, g)
    ELSE List([i \in 1..Len(x) |-> RefItem(x[i], l, g)])

RefRead(l, g, n) == IF l[n] # Undef THEN l[n] ELSE g[n]

LastDecl == last.op = "decl" /\ last.err = ""

(***************************************************************************)
(* C1: a declaration without !default always replaces the current value of *)
(* the variable; a declaration with !default writes only when the variable *)
(* is undefined or null at that point.                                     *)
(***************************************************************************)
C1_DefaultWritesOnlyUndefinedOrNull ==
    (LastDecl /\ ~last.global) =>
        LET before == RefRead(last.prelocal, last.preglobal, last.n)
            now == RefRead(local, global, last.n)
        IN now = IF last.default /\ before \notin {Undef, Null}
                 THEN before ELSE last.val

\* `$a: red; $a: blue !default;` : the second declaration left red in place
C1_Witness ==
    /\ LastDecl /\ last.default /\ ~last.global
    /\ RefRead(last.prelocal, last.preglobal, last.n) \notin {Undef, Null, last.val}
    /\ RefRead(local, global, last.n) # last.val

(***************************************************************************)
(* C3: a declaration flagged !global inside a ruleset writes the module    *)
(* root, also when the flag is spelled with an escape (`!\67 lobal`), and  *)
(* a read that finds no ruleset-local variable gives the root value.       *)
(***************************************************************************)
C3_GlobalWritesModuleRoot ==
    /\ (last.op = "decl" /\ last.flags \in {<<GlobalWord>>, <<GlobalEscaped>>}
          /\ last.err # "Undefined variable.") =>
            /\ last.err = ""
            /\ global[last.n] = last.val
            /\ local = last.prelocal
    /\ (last.op = "style" /\ last.err = "" /\ Len(last.x) = 1 /\ last.x[1].e = "var"
          /\ local[last.x[1].n] = Undef) =>
            last.stmts = <<Style("p", global[last.x[1].n])>>

\* `s { $a: green !\67 lobal; }` with a different $a in the root before
C3_Witness ==
    /\ LastDecl /\ last.flags = <<GlobalEscaped>> /\ sel # <<>>
    /\ last.preglobal[last.n] \notin {Undef, last.val}
    /\ global[last.n] = last.val

(***************************************************************************)
(* C4: a variable reference is replaced by the value the variable has when *)
(* the expression is evaluated: the declared value is the expression with  *)
(* the current values substituted, and a later declaration of another      *)
(* variable leaves it as it is.                                            *)
(***************************************************************************)
C4_ReferenceIsValueAtEvaluation ==
    LastDecl =>
        /\ last.val = RefValue(last.x, last.prelocal, last.preglobal)
        /\ \A m \in Names \ {last.n} :
               RefRead(local, global, m) = RefRead(last.prelocal, last.preglobal, m)

\* `$b: solid $a; $a: <new>;` : $b still holds the list made from the old $a
C4_Witness ==
    /\ LastDecl /\ last.n = "a"
    /\ RefRead(last.prelocal, last.preglobal, "a") # Undef
    /\ RefRead(local, global, "a") # RefRead(last.prelocal, last.preglobal, "a")
    /\ RefRead(local, global, "b") =
           List(<<Solid, RefRead(last.prelocal, last.preglobal, "a")>>)

(***************************************************************************)
(* The last include, as the properties see it                              *)
(***************************************************************************)
LastInclude == last.op = "include"

\* the content block evaluated in the scope of the caller, under its selector
CallContent ==
    IF last.has_block
    THEN ruleset_eval(last.block, EvalState(last.prelocal, last.preglobal), sel, <<>>)
    ELSE EvalState(last.prelocal, last.preglobal)

\* the include got as far as binding the arguments
Called == LastInclude /\ last.mixin.defined /\ CallContent.err = ""

\* the body ran: the state after its first i statements
BodyAfter(i) ==
    Mixin_eval(SubSeq(last.bound.body, 1, i),
               EvalState(last.bound.scope, CallContent.root), sel, last.content)

\* statement i of the body is a block of kind k holding one plain assignment
AssignsInBlock(i, k) ==
    /\ last.bound.body[i].k = k
    /\ Len(last.bound.body[i].b) = 1
    /\ last.bound.body[i].b[1].k = "var"
    /\ ~last.bound.body[i].b[1].d /\ ~last.bound.body[i].b[1].g

AssignedIn(i) ==
    RefValue(last.bound.body[i].b[1].x, BodyAfter(i - 1).scope, BodyAfter(i - 1).root)

(***************************************************************************)
(* C2: an assignment without flags inside a nested ruleset, to a variable  *)
(* the enclosing block already defines, is what the enclosing block reads  *)
(* after the nested ruleset closes.                                        *)
(***************************************************************************)
C2_NestedRulesetAssignmentEscapes ==
    (LastInclude /\ last.err = "") =>
        \A i \in 1..Len(last.bound.body) :
            (/\ AssignsInBlock(i, "sel")
             /\ RefRead(BodyAfter(i - 1).scope, BodyAfter(i - 1).root,
                        last.bound.body[i].b[1].n) # Undef) =>
                RefRead(BodyAfter(i).scope, BodyAfter(i).root,
                        last.bound.body[i].b[1].n) = AssignedIn(i)

\* `t { $a: red; } p: $a;` in a body whose $a was not red: p is red
C2_Witness ==
    /\ LastInclude /\ last.err = ""
    /\ Len(last.bound.body) = 2
    /\ AssignsInBlock(1, "sel")
    /\ last.bound.body[2] = ReadA
    /\ RefRead(last.bound.scope, CallContent.root, "a") \notin {Undef, Red}
    /\ last.stmts[2] = Style("p", Red)

RECURSIVE GlobalNames(_)
GlobalNames(body) ==
    IF body = <<>> THEN {}
    ELSE (IF Head(body).k = "var" /\ Head(body).g THEN {Head(body).n} ELSE {})
         \cup GlobalNames(Head(body).b) \cup GlobalNames(Tail(body))

(***************************************************************************)
(* C5 (as stated): an include leaves every variable of the caller as it    *)
(* was, and only the !global writes of the mixin body are observable.      *)
(***************************************************************************)
C5_OnlyBodyGlobalsObservable ==
    (LastInclude /\ last.err = "") =>
        /\ local = last.prelocal
        /\ \A n \in Names :
               global[n] # last.preglobal[n] => n \in GlobalNames(last.mixin.body)

(***************************************************************************)
(* C5 (amended): an include leaves the scope of the caller as it was; a    *)
(* module-root variable changes only when the mixin body or the content    *)
(* block of the include declares it with !global.                          *)
(***************************************************************************)
C5_OnlyGlobalWritesObservable ==
    (LastInclude /\ last.err = "") =>
        /\ local = last.prelocal
        /\ \A n \in Names :
               global[n] # last.preglobal[n] =>
                   n \in GlobalNames(last.mixin.body) \cup GlobalNames(last.block)

\* the body assigned $a locally and $b globally; the content block
\* assigned $a too: the caller still has its own $a, and sees the new $b
C5_Witness ==
    /\ LastInclude /\ last.err = ""
    /\ last.mixin.body = <<AssignA, GlobalB>>
    /\ last.has_block /\ last.block = <<SVar("a", <<Lit(Solid)>>, FALSE, FALSE)>>
    /\ local["a"] = Blue
    /\ global["b"] = Red /\ last.preglobal["b"] # Red

(***************************************************************************)
(* Argument binding                                                        *)
(***************************************************************************)
\* the parameters before the variadic one
Bindable ==
    {i \in 1..Len(last.mixin.args) :
        \A j \in 1..i : ~last.mixin.args[j].is_variadic}

HasKeyword(name) == \E k \in 1..Len(last.args.named) : last.args.named[k].name = name
Keyword(name) ==
    last.args.named[CHOOSE k \in 1..Len(last.args.named) :
                        last.args.named[k].name = name].x

\* where parameter i takes its value from
Source(i) ==
    IF i <= Len(last.args.pos) THEN "positional"
    ELSE IF HasKeyword(last.mixin.args[i].name) THEN "keyword"
    ELSE IF last.mixin.args[i].has_default THEN "default"
    ELSE "missing"

IsLiteral(x) == \A k \in 1..Len(x) : x[k].e = "lit"

(***************************************************************************)
(* C6: each parameter before the variadic one is bound, in declaration     *)
(* order, to the positional argument at its index, else to the keyword     *)
(* argument of its name, else to its default; the first parameter that has *)
(* none of the three ends the call with "Missing argument $name." and no   *)
(* statements.                                                             *)
(***************************************************************************)
C6_ArgumentBinding ==
    Called =>
        /\ \A i \in Bindable :
              (\A j \in 1..i : Source(j) # "missing"
                  /\ (Source(j) = "default" => IsLiteral(last.mixin.args[j].default))) =>
                 last.bound.scope[last.mixin.args[i].name] =
                    CASE Source(i) = "positional" ->
                           RefValue(last.args.pos[i], last.prelocal, CallContent.root)
                      [] Source(i) = "keyword" ->
                           RefValue(Keyword(last.mixin.args[i].name),
                                    last.prelocal, CallContent.root)
                      [] OTHER ->
                           RefValue(last.mixin.args[i].default, EmptyScope, EmptyScope)
        /\ \A i \in Bindable :
              (/\ Source(i) = "missing"
               /\ \A j \in 1..(i - 1) :
                     /\ Source(j) # "missing"
                     /\ Source(j) = "default" => IsLiteral(last.mixin.args[j].default)) =>
                 /\ last.err = "Missing argument $" \o last.mixin.args[i].name \o "."
                 /\ last.stmts = <<>>

\* m($a: blue, $b) included without arguments: $a is bound, $b is missing
C6_Witness ==
    /\ Called
    /\ Len(last.mixin.args) = 2 /\ last.mixin.args[1].has_default
    /\ last.args = CallArgs(<<>>, <<>>)
    /\ last.bound.scope["a"] = Blue
    /\ last.err = "Missing argument $b."

\* the scope of the mixin once its first i parameters are bound that way
RECURSIVE RefBound(_)
RefBound(i) ==
    IF i = 0 THEN last.mixin.scope
    ELSE LET p == last.mixin.args[i]
             before == RefBound(i - 1)
         IN [before EXCEPT ![p.name] =
               CASE Source(i) = "positional" ->
                      RefValue(last.args.pos[i], last.prelocal, CallContent.root)
                 [] Source(i) = "keyword" ->
                      RefValue(Keyword(p.name), last.prelocal, CallContent.root)
                 [] OTHER -> RefValue(p.default, before, CallContent.root)]

(***************************************************************************)
(* C7: a default value is evaluated in the scope the mixin captured,       *)
(* extended by the parameters bound before it.                             *)
(***************************************************************************)
C7_DefaultSeesEarlierParameters ==
    Called =>
        \A i \in Bindable :
            (/\ Source(i) = "default"
             /\ \A j \in 1..i : Source(j) # "missing"
             /\ RefBound(i)[last.mixin.args[i].name] # Undef) =>
                last.bound.scope[last.mixin.args[i].name] =
                    RefBound(i)[last.mixin.args[i].name]

ContentMark == SStyle("@content", <<Lit(Ident("@content"))>>)

RECURSIVE MarkContent(_)
MarkContent(body) ==
    [i \in 1..Len(body) |->
        IF body[i].k = "content" THEN ContentMark
        ELSE [body[i] EXCEPT !.b = MarkContent(@)]]

RECURSIVE SpliceContent(_, _)
SpliceContent(stmts, content) ==
    IF stmts = <<>> THEN <<>>
    ELSE (IF Head(stmts).t = "style" /\ Head(stmts).p = "@content" THEN content
          ELSE IF Head(stmts).t = "ruleset"
          THEN <<[Head(stmts) EXCEPT !.rules = SpliceContent(@, content)]>>
          ELSE <<Head(stmts)>>)
         \o SpliceContent(Tail(stmts), content)

RECURSIVE CountContent(_)
CountContent(body) ==
    IF body = <<>> THEN 0
    ELSE (IF Head(body).k = "content" THEN 1 ELSE 0)
         + CountContent(Head(body).b) + CountContent(Tail(body))

(***************************************************************************)
(* C9: every @content of the body is replaced, where it stands, by the     *)
(* statements of the content block evaluated in the scope of the caller    *)
(* under the parent selector of the caller; without a block by nothing.    *)
(***************************************************************************)
C9_ContentSplicedInPlace ==
    (LastInclude /\ last.err = "") =>
        last.stmts =
            SpliceContent(
                Mixin_eval(MarkContent(last.bound.body),
                           EvalState(last.bound.scope, CallContent.root), sel, <<>>).stmts,
                CallContent.stmts)

\* a body with two @content, included with a block that yields a statement
C9_Witness ==
    /\ LastInclude /\ last.err = ""
    /\ CountContent(last.mixin.body) = 2
    /\ last.has_block /\ Len(CallContent.stmts) = 1
    /\ \E i \in 1..Len(last.stmts) : last.stmts[i].t = "ruleset"

(***************************************************************************)
(* C10: a variable assigned without !global in the executed branch of an   *)
(* @if of a mixin body is what the statements after the @if read.          *)
(***************************************************************************)
C10_IfBranchAssignmentEscapes ==
    (LastInclude /\ last.err = "") =>
        \A i \in 1..Len(last.bound.body) :
            (/\ AssignsInBlock(i, "if")
             /\ is_true(RefValue(last.bound.body[i].x,
                                 BodyAfter(i - 1).scope, BodyAfter(i - 1).root))) =>
                RefRead(BodyAfter(i).scope, BodyAfter(i).root,
                        last.bound.body[i].b[1].n) = AssignedIn(i)

(***************************************************************************)
(* Nested property shorthand (src/src/style.rs)                            *)
(***************************************************************************)
MaxWrites == 5

PropNames == {"x", "y"}

\* the tokens left after `font:` : punctuation, identifiers and values
Tok(kind, s) == [kind |-> kind, s |-> s]
Punct(c) == Tok(c, "")
IdTok(s) == Tok("id", s)
ValTok(s) == Tok("val", s)

\* toks.peek()
peek(toks) == IF toks = <<>> THEN Tok("eof", "") ELSE Head(toks)

StyleErr(msg, toks) == [err |-> msg, toks |-> toks, styles |-> <<>>, expr |-> "none"]

\* a declaration emitted under its own name only
parse_property_own_name(toks, super_property) ==
    IF peek(toks).kind # "id"
    THEN [err |-> "Expected identifier.", toks |-> toks, property |-> ""]
    ELSE IF peek(Tail(toks)).kind # ":"
    THEN [err |-> "Expected \":\".", toks |-> toks, property |-> ""]
    ELSE [err |-> "", toks |-> Tail(Tail(toks)), property |-> Head(toks).s]

\* StyleParser::parse_property: the name, joined to the super property by `-`
parse_property(toks, super_property) ==
    IF peek(toks).kind # "id"
    THEN [err |-> "Expected identifier.", toks |-> toks, property |-> ""]
    ELSE IF peek(Tail(toks)).kind # ":"
    THEN [err |-> "Expected \":\".", toks |-> toks, property |-> ""]
    ELSE [err |-> "", toks |-> Tail(Tail(toks)),
          property |-> IF super_property = "" THEN Head(toks).s
                       ELSE super_property \o "-" \o Head(toks).s]

\* StyleParser::parse_style_value: the value expression in front of the
\* next `;`, `{` or `}`
parse_style_value(toks) ==
    IF peek(toks).kind = "val"
    THEN [err |-> "", toks |-> Tail(toks), value |-> Ident(Head(toks).s)]
    ELSE [err |-> "Expected expression.", toks |-> toks, value |-> Undef]

RECURSIVE eat_style_group(_, _)
RECURSIVE group_loop(_, _, _)

\* style.rs:113-123 and 152-161: `}` ends the group, anything else is the
\* next declaration of the group
group_end(toks, super_property, styles) ==
    IF peek(toks).kind = "}"
    THEN [err |-> "", toks |-> Tail(toks), styles |-> styles, expr |-> "Styles"]
    ELSE group_loop(toks, super_property, styles)

\* style.rs:108-112 and 141-145: the styles g of a nested group
group_nested(super_property, styles, g) ==
    IF g.err # "" THEN g
    ELSE group_end(g.toks, super_property, styles \o g.styles)

\* style.rs:126-151: the declaration `property: v` inside a group
group_value(super_property, styles, property, v) ==
    IF v.err # "" THEN StyleErr(v.err, v.toks)
    ELSE CASE peek(v.toks).kind = ";" ->
                group_end(Tail(v.toks), super_property,
                          Append(styles, Style(property, v.value)))
           [] peek(v.toks).kind = "{" ->
                group_nested(super_property, Append(styles, Style(property, v.value)),
                             eat_style_group(v.toks, property))
           [] OTHER ->
                group_end(v.toks, super_property,
                          Append(styles, Style(property, v.value)))

\* style.rs:104-126: after the property name p, a nested group or a value
group_property(super_property, styles, p) ==
    IF p.err # "" THEN StyleErr(p.err, p.toks)
    ELSE IF peek(p.toks).kind = "{"
    THEN group_nested(super_property, styles, eat_style_group(p.toks, p.property))
    ELSE group_value(super_property, styles, p.property, parse_style_value(p.toks))

\* style.rs:103-162: the loop over the declarations of a group
group_loop(toks, super_property, styles) ==
    group_property(super_property, styles, parse_property(toks, super_property))

\* style.rs:173-182: the direct value, then the styles g of its nested group
value_nested(style, g) ==
    IF g.err # "" THEN g
    ELSE [err |-> "", toks |-> g.toks, styles |-> <<style>> \o g.styles, expr |-> "Styles"]

\* style.rs:165-189: a value right after `property:`
group_direct(toks, super_property, v) ==
    IF v.err # "" THEN StyleErr(v.err, v.toks)
    ELSE CASE peek(v.toks).kind = "eof" -> StyleErr("expected more input.", v.toks)
           [] peek(v.toks).kind = ";" ->
                [err |-> "", toks |-> Tail(v.toks),
                 styles |-> <<Style(super_property, v.value)>>, expr |-> "Style"]
           [] peek(v.toks).kind = "{" ->
                value_nested(Style(super_property, v.value),
                             eat_style_group(v.toks, super_property))
           [] OTHER ->
                [err |-> "", toks |-> v.toks,
                 styles |-> <<Style(super_property, v.value)>>, expr |-> "Style"]

\* StyleParser::eat_style_group
eat_style_group(toks, super_property) ==
    CASE peek(toks).kind = "eof" ->
           [err |-> "", toks |-> toks, styles |-> <<>>, expr |-> "Styles"]
      [] peek(toks).kind = "{" -> group_loop(Tail(toks), super_property, <<>>)
      [] OTHER -> group_direct(toks, super_property, parse_style_value(toks))

\* Style::from_tokens
Style_from_tokens(toks, super_property) == eat_style_group(toks, super_property)

\* the source text after `font:` while it is written: its tokens, the
\* property names of the blocks still open, whether the innermost block is
\* still empty, and the declarations written so far under their full names
NoSource ==
    [op |-> "source", err |-> "", toks |-> <<>>, open |-> <<>>, fresh |-> FALSE,
     written |-> <<>>, styles |-> <<>>, expr |-> "none", rest |-> <<>>]

Writing == pc = "run" /\ last.op = "source" /\ steps < MaxWrites

Written(r) ==
    /\ last' = r
    /\ steps' = steps + 1
    /\ pc' = "run"
    /\ UNCHANGED <<global, local, sel, mixins>>

Innermost == last.open[Len(last.open)]

Pop(open) == SubSeq(open, 1, Len(open) - 1)

\* `font: v;` or `font: v }`
WriteValue(v, end) ==
    /\ Writing
    /\ last.toks = <<>>
    /\ Written([last EXCEPT !.toks = <<ValTok(v), Punct(end)>>,
                            !.written = <<Style("font", Ident(v))>>])

\* `font: {` or `font: v {`
WriteBlock(has_value, v) ==
    /\ Writing
    /\ last.toks = <<>>
    /\ Written([last EXCEPT !.toks = (IF has_value THEN <<ValTok(v)>> ELSE <<>>)
                                        \o <<Punct("{")>>,
                            !.open = <<"font">>,
                            !.fresh = TRUE,
                            !.written = IF has_value THEN <<Style("font", Ident(v))>>
                                        ELSE <<>>])

\* `name: v;` inside the innermost open block
WriteDecl(name, v) ==
    /\ Writing
    /\ last.open # <<>>
    /\ Written([last EXCEPT !.toks = @ \o <<IdTok(name), Punct(":"), ValTok(v), Punct(";")>>,
                            !.fresh = FALSE,
                            !.written = Append(@, Style(Innermost \o "-" \o name, Ident(v)))])

\* `name: v }` : the last declaration of a block needs no `;`
WriteLastDecl(name, v) ==
    /\ Writing
    /\ last.open # <<>>
    /\ Written([last EXCEPT !.toks = @ \o <<IdTok(name), Punct(":"), ValTok(v), Punct("}")>>,
                            !.open = Pop(@),
                            !.fresh = FALSE,
                            !.written = Append(@, Style(Innermost \o "-" \o name, Ident(v)))])

\* `name: {` or `name: v {` inside the innermost open block
WriteNested(name, has_value, v) ==
    /\ Writing
    /\ last.open # <<>>
    /\ Written([last EXCEPT !.toks = @ \o <<IdTok(name), Punct(":")>>
                                       \o (IF has_value THEN <<ValTok(v)>> ELSE <<>>)
                                       \o <<Punct("{")>>,
                            !.open = Append(@, Innermost \o "-" \o name),
                            !.fresh = TRUE,
                            !.written = IF has_value
                                        THEN Append(@, Style(Innermost \o "-" \o name, Ident(v)))
                                        ELSE @])

\* `}` after the declarations of a block
WriteClose ==
    /\ Writing
    /\ last.open # <<>>
    /\ ~last.fresh
    /\ Written([last EXCEPT !.toks = Append(@, Punct("}")), !.open = Pop(@)])

StyleGroupStep(g) ==
    /\ last' = [last EXCEPT !.op = "eat_style_group", !.err = g.err, !.styles = g.styles,
                            !.expr = g.expr, !.rest = g.toks]
    /\ pc' = "done"
    /\ UNCHANGED <<global, local, sel, mixins, steps>>

\* the finished text is parsed with the super property `font`
EatStyleGroup ==
    /\ pc = "run"
    /\ last.op = "source"
    /\ last.toks # <<>>
    /\ last.open = <<>>
    /\ StyleGroupStep(Style_from_tokens(last.toks, "font"))

InitStyle ==
    /\ global = EmptyScope
    /\ local = EmptyScope
    /\ sel = <<>>
    /\ mixins = [m \in MixinNames |-> NoMixin]
    /\ last = NoSource
    /\ steps = 0
    /\ pc = "run"

NextStyle ==
    \/ \E end \in {";", "}"} : WriteValue("10pt", end)
    \/ \E has_value \in BOOLEAN : WriteBlock(has_value, "10pt")
    \/ \E name \in PropNames : WriteDecl(name, "bold")
    \/ \E name \in PropNames : WriteLastDecl(name, "bold")
    \/ \E name \in PropNames, has_value \in BOOLEAN : WriteNested(name, has_value, "1em")
    \/ WriteClose
    \/ EatStyleGroup

SpecStyle == InitStyle /\ [][NextStyle]_vars

\* C11: every declaration written inside nested property blocks is emitted
\* exactly once, in source order, under the name that joins the enclosing
\* property names and its own name with `-`; a direct value is emitted under
\* the outer name before the declarations of its nested block.
C11_NestedPropertiesInSourceOrder ==
    last.op = "eat_style_group" =>
        /\ last.err = ""
        /\ last.styles = last.written
        /\ last.rest = <<>> \/ last.rest = <<Punct("}")>>

\* `font: 10pt { x: 1em { y: bold } ... }` was parsed
C11_Witness ==
    /\ last.op = "eat_style_group"
    /\ last.err = ""
    /\ Len(last.written) >= 3
    /\ last.written[1] = Style("font", Ident("10pt"))
    /\ \E i \in 2..Len(last.written) : last.written[i].p = "font-x"
    /\ \E i \in 3..Len(last.written) : last.written[i].p = "font-x-y"

(***************************************************************************)
(* Numbers (src/src/value/number/mod.rs): exact rationals in two tiers     *)
(***************************************************************************)
PRECISION == 10

\* integers beyond the range of the checker are held as two limbs,
\* hi * Limb + lo; every integer of the model is below 2^63, so the checked
\* operations of the Machine tier never overflow on them
Limb == 100000000
Wide(hi, lo) == [hi |-> hi, lo |-> lo]
W(n) == Wide(0, n)
WZero == W(0)

WLess(a, b) == a.hi < b.hi \/ (a.hi = b.hi /\ a.lo < b.lo)
WLeq(a, b) == a = b \/ WLess(a, b)
WAdd(a, b) == Wide(a.hi + b.hi + ((a.lo + b.lo) \div Limb), (a.lo + b.lo) % Limb)
\* a - b for a >= b
WSub(a, b) ==
    IF a.lo >= b.lo THEN Wide(a.hi - b.hi, a.lo - b.lo)
    ELSE Wide(a.hi - b.hi - 1, a.lo + Limb - b.lo)
\* a * k for a small k
WTimes(a, k) == Wide(a.hi * k + ((a.lo * k) \div Limb), (a.lo * k) % Limb)
\* a * b when one of the factors is below 20, or both are below 10000
WMul(a, b) ==
    IF b.hi = 0 /\ b.lo <= 20 THEN WTimes(a, b.lo)
    ELSE IF a.hi = 0 /\ a.lo <= 20 THEN WTimes(b, a.lo)
    ELSE W(a.lo * b.lo)

\* the quotient and the remainder of a division whose quotient is at most
\* MaxQuot
MaxQuot == 10
WQuot(n, d) ==
    CHOOSE q \in 0..MaxQuot : WLeq(WTimes(d, q), n) /\ WLess(n, WTimes(d, q + 1))
WRem(n, d) == WSub(n, WTimes(d, WQuot(n, d)))

\* Number::Machine(Rational64) and Number::Big(BigRational): the sign, and
\* the magnitude numer / denom
Number(tier, neg, numer, denom) ==
    [tier |-> tier, neg |-> neg, numer |-> numer, denom |-> denom]
Machine(neg, numer, denom) == Number("Machine", neg, numer, denom)
Big(neg, numer, denom) == Number("Big", neg, numer, denom)

Number_is_zero(self) == self.numer = WZero
Number_is_negative(self) == self.neg /\ self.numer # WZero
Number_abs(self) == [self EXCEPT !.neg = FALSE]
\* the integer part, truncated toward zero, and its magnitude
Number_to_integer(self) ==
    [neg |-> Number_is_negative(self) /\ WQuot(self.numer, self.denom) # 0,
     mag |-> WQuot(self.numer, self.denom)]
Integer_abs(i) == i.mag
Number_is_decimal(self) == WRem(self.numer, self.denom) # WZero
Number_fract(self) == [self EXCEPT !.numer = WRem(self.numer, self.denom)]
\* From<i64>
Number_from(n) == Machine(n < 0, W(IF n < 0 THEN -n ELSE n), W(1))

\* impl Mul for Number: Machine first, Big when a factor is Big (the checked
\* product of two Machine values of the model never overflows)
Number_mul(self, other) ==
    Number(IF self.tier = "Machine" /\ other.tier = "Machine" THEN "Machine" ELSE "Big",
           self.neg # other.neg,
           WMul(self.numer, other.numer), WMul(self.denom, other.denom))

\* Ratio::round: half away from zero
round_up(self, r) == WLeq(self.denom, WTimes(r, 2))
Number_round(self) ==
    [self EXCEPT !.numer =
        IF round_up(self, WRem(self.numer, self.denom))
        THEN WTimes(self.denom, WQuot(self.numer, self.denom) + 1)
        ELSE WTimes(self.denom, WQuot(self.numer, self.denom))]

Front(s) == SubSeq(s, 1, Len(s) - 1)
Last(s) == s[Len(s)]

\* mod.rs:243-250: up to PRECISION - 1 digits, until the fraction is zero
RECURSIVE display_digits(_, _, _)
display_digit_done(i, dec, frac) ==
    IF Number_is_zero(frac) THEN [dec |-> dec, frac |-> frac]
    ELSE display_digits(i + 1, dec, frac)

display_digit(i, dec, frac10) ==
    display_digit_done(i, Append(dec, Integer_abs(Number_to_integer(frac10))),
                       Number_fract(frac10))

display_digits(i, dec, frac) ==
    IF i >= PRECISION - 1 THEN [dec |-> dec, frac |-> frac]
    ELSE display_digit(i, dec, Number_mul(frac, Number_from(10)))

\* a carry that stops at the last fractional digit
display_carry_last(dec, whole) ==
    IF dec = <<>> THEN [dec |-> dec, whole |-> whole + 1]
    ELSE [dec |-> Append(Front(dec), Last(dec) + 1), whole |-> whole]

\* mod.rs:254-266: the last digit rounded to ten carries through the 9s
RECURSIVE display_carry(_, _)
display_carry(dec, whole) ==
    IF dec = <<>> THEN [dec |-> dec, whole |-> whole + 1]
    ELSE IF Last(dec) = 9 THEN display_carry(Front(dec), whole)
    ELSE [dec |-> Append(Front(dec), Last(dec) + 1), whole |-> whole]

\* mod.rs:268-277: the last digit rounded to zero drops the trailing zeros
RECURSIVE display_trim(_, _)
display_trim(dec, whole) ==
    IF dec = <<>> THEN [dec |-> dec, whole |-> whole]
    ELSE IF Last(dec) = 0 THEN display_trim(Front(dec), whole)
    ELSE [dec |-> dec, whole |-> whole]

\* mod.rs:251-281: the digit that ends the fraction
display_end(dec, whole, end) ==
    IF end = 10 THEN display_carry(dec, whole)
    ELSE IF end = 0 THEN display_trim(dec, whole)
    ELSE [dec |-> Append(dec, end), whole |-> whole]

display_round(whole, r) ==
    IF Number_is_zero(r.frac) THEN [dec |-> r.dec, whole |-> whole]
    ELSE display_end(r.dec, whole,
             Integer_abs(Number_to_integer(
                 Number_round(Number_mul(r.frac, Number_from(10))))))

\* mod.rs:284-291: the sign, the integer part, the fractional digits
display_write(self, r) ==
    [neg |-> Number_is_negative(self) /\ (r.whole # 0 \/ r.dec # <<>>),
     whole |-> r.whole, dec |-> r.dec]

display_fraction(self, whole) ==
    IF Number_is_decimal(self)
    THEN display_round(whole, display_digits(0, <<>>, Number_fract(Number_abs(self))))
    ELSE [dec |-> <<>>, whole |-> whole]

\* impl Display for Number
Number_fmt(self) ==
    display_write(self, display_fraction(self, Integer_abs(Number_to_integer(self))))

\* BigRational / BigRational: Ratio::new panics on a zero denominator
Ratio_div(tier, self, other) ==
    IF Number_is_zero(other) THEN [kind |-> "panic", val |-> Number(tier, FALSE, WZero, W(1))]
    ELSE [kind |-> "value",
          val |-> Number(tier, self.neg # other.neg,
                         WMul(self.numer, other.denom), WMul(self.denom, other.numer))]

\* Rational64::checked_div: None for a zero divisor (and on overflow, which
\* the values of the model do not reach)
checked_div(self, other) ==
    IF Number_is_zero(other)
    THEN [some |-> FALSE, v |-> [kind |-> "none", val |-> Number("Machine", FALSE, WZero, W(1))]]
    ELSE [some |-> TRUE, v |-> Ratio_div("Machine", self, other)]

\* impl Div for Number, Machine / Machine
div_machine(self, other, c) ==
    IF c.some THEN c.v ELSE Ratio_div("Big", self, other)

\* impl Div for Number
Number_div(self, other) ==
    IF self.tier = "Machine" /\ other.tier = "Machine"
    THEN div_machine(self, other, checked_div(self, other))
    ELSE Ratio_div("Big", self, other)

\* the proper fractions numbers are made of, as numerator and denominator
Tiers == {"Machine", "Big"}
Hundred == Wide(1000, 0)
Fractions ==
    { <<W(0), W(1)>>, <<W(1), W(2)>>, <<W(3), W(4)>>, <<W(1), W(8)>>,
      <<W(1), W(3)>>, <<W(2), W(3)>>, <<W(1), W(7)>>, <<W(6), W(7)>>,
      <<W(8), W(21)>>, <<W(13), W(21)>>, <<W(1), W(1024)>>, <<W(1), W(2048)>>,
      <<W(4), Hundred>>, <<W(5), Hundred>>, <<W(6), Hundred>>,
      <<Wide(999, 99999996), Hundred>>, <<Wide(999, 99999995), Hundred>>,
      <<Wide(999, 99999994), Hundred>>,
      <<Wide(199, 99999996), Hundred>>, <<Wide(199, 99999995), Hundred>>,
      <<Wide(99, 99999996), Hundred>>,
      <<Wide(100, 3), Hundred>>, <<Wide(100, 5), Hundred>>,
      <<Wide(123, 4), Hundred>>, <<Wide(909, 99999999), Hundred>>,
      <<Wide(300, 1), Wide(3000, 0)>> }
Wholes == {0, 1, 9}
Numbers ==
    { Number(t, neg, WAdd(WTimes(f[2], w), f[1]), f[2]) :
        t \in Tiers, neg \in BOOLEAN, w \in Wholes, f \in Fractions }
\* operands of a division
Operands ==
    { Number(t, neg, W(n), W(d)) : t \in Tiers, neg \in BOOLEAN, n \in {0, 1, 3}, d \in {1, 2} }

NoCall == [op |-> "none", err |-> "", self |-> Number_from(0), other |-> Number_from(0)]

Display(self) ==
    /\ pc = "run"
    /\ last' = [op |-> "fmt", err |-> "", self |-> self, out |-> Number_fmt(self)]
    /\ pc' = "done"
    /\ UNCHANGED <<global, local, sel, mixins, steps>>

DivStep(self, other, r) ==
    /\ last' = [op |-> "div", err |-> "", self |-> self, other |-> other,
                kind |-> r.kind, val |-> r.val]
    /\ pc' = IF r.kind = "panic" THEN "abort" ELSE "done"
    /\ UNCHANGED <<global, local, sel, mixins, steps>>

Div(self, other) ==
    /\ pc = "run"
    /\ DivStep(self, other, Number_div(self, other))

InitNumber ==
    /\ global = EmptyScope
    /\ local = EmptyScope
    /\ sel = <<>>
    /\ mixins = [m \in MixinNames |-> NoMixin]
    /\ last = NoCall
    /\ steps = 0
    /\ pc = "run"

NextNumber ==
    \/ \E self \in Numbers : Display(self)
    \/ \E self \in Operands, other \in Operands : Div(self, other)

SpecNumber == InitNumber /\ [][NextNumber]_vars

RECURSIVE Pow10(_)
Pow10(k) == IF k = 0 THEN 1 ELSE 10 * Pow10(k - 1)

\* the first PRECISION - 1 fractional digits of numer / denom as one integer,
\* and what is left of the fraction behind them
RECURSIVE RefNine(_, _, _, _)
RefNine(i, acc, rem, denom) ==
    IF i = PRECISION - 1 THEN [nine |-> acc, rem |-> rem]
    ELSE RefNine(i + 1, acc * 10 + WQuot(WTimes(rem, 10), denom),
                 WRem(WTimes(rem, 10), denom), denom)

\* whole, nine digits and a tenth digit, after the tenth digit went up by one
RefCarry(whole, nine, tenth) ==
    IF tenth < 10 THEN [whole |-> whole, nine |-> nine, tenth |-> tenth]
    ELSE IF nine + 1 < Pow10(PRECISION - 1) THEN [whole |-> whole, nine |-> nine + 1, tenth |-> 0]
    ELSE [whole |-> whole + 1, nine |-> 0, tenth |-> 0]

\* the magnitude rounded half away from zero to PRECISION fractional digits
RefRounded(self) ==
    LET w == WQuot(self.numer, self.denom)
        n == RefNine(0, 0, WRem(self.numer, self.denom), self.denom)
        t == WQuot(WTimes(n.rem, 10), self.denom)
        r == WRem(WTimes(n.rem, 10), self.denom)
    IN RefCarry(w, n.nine, IF WLeq(self.denom, WTimes(r, 2)) THEN t + 1 ELSE t)

\* the PRECISION fractional digits of a rounded magnitude, trailing zeros
\* removed
RefFraction(v) ==
    LET all == [i \in 1..PRECISION |->
                   IF i = PRECISION THEN v.tenth
                   ELSE (v.nine \div Pow10(PRECISION - 1 - i)) % 10]
        keep == IF \A i \in 1..PRECISION : all[i] = 0 THEN 0
                ELSE CHOOSE k \in 1..PRECISION :
                         all[k] # 0 /\ \A j \in (k + 1)..PRECISION : all[j] = 0
    IN SubSeq(all, 1, keep)

RefDisplay(self) ==
    LET v == RefRounded(self)
    IN [neg |-> self.neg /\ (v.whole # 0 \/ v.nine # 0 \/ v.tenth # 0),
        whole |-> v.whole, dec |-> RefFraction(v)]

\* C12: the display of a number is its exact value rounded half away from
\* zero to 10 fractional digits, trailing zeros removed; a carry runs through
\* the 9s and may reach the integer part, every fractional character is a
\* digit, and a negative value that rounds to zero has no sign.
C12_DisplayRoundsToTenDigits ==
    last.op = "fmt" =>
        /\ last.out = RefDisplay(last.self)
        /\ \A i \in 1..Len(last.out.dec) : last.out.dec[i] \in 0..9
        /\ Len(last.out.dec) <= PRECISION

\* a carry went through nine 9s into the integer part of a negative number
C12_Witness ==
    /\ last.op = "fmt"
    /\ last.self.neg
    /\ last.self.denom = Hundred
    /\ last.self.numer = WAdd(WTimes(Hundred, 1), Wide(999, 99999996))
    /\ last.out = [neg |-> TRUE, whole |-> 2, dec |-> <<>>]

\* C13: dividing by a number equal to zero gives an error outcome: it neither
\* aborts the process nor returns a value.
C13_DivisionByZeroIsError ==
    (last.op = "div" /\ Number_is_zero(last.other)) => last.kind = "error"

(***************************************************************************)
(* Operators (src/src/common.rs)                                           *)
(***************************************************************************)
Ops ==
    { "Equal", "NotEqual", "GreaterThan", "GreaterThanEqual", "LessThan",
      "LessThanEqual", "Plus", "Minus", "Mul", "Div", "Rem", "And", "Or", "Not" }

\* Op::precedence: higher numbers are evaluated first
Op_precedence(self) ==
    CASE self \in {"And", "Or", "Not"} -> 0
      [] self \in {"Equal", "NotEqual", "GreaterThan", "GreaterThanEqual",
                   "LessThan", "LessThanEqual"} -> 1
      [] self \in {"Plus", "Minus"} -> 2
      [] self \in {"Mul", "Div", "Rem"} -> 3

\* two operators of an expression are ranked against each other
Rank(a, b) ==
    /\ pc = "run"
    /\ last' = [op |-> "precedence", err |-> "", a |-> a, b |-> b,
                pa |-> Op_precedence(a), pb |-> Op_precedence(b)]
    /\ pc' = "done"
    /\ UNCHANGED <<global, local, sel, mixins, steps>>

InitOp ==
    /\ global = EmptyScope
    /\ local = EmptyScope
    /\ sel = <<>>
    /\ mixins = [m \in MixinNames |-> NoMixin]
    /\ last = [op |-> "none", err |-> ""]
    /\ steps = 0
    /\ pc = "run"

NextOp == \E a \in Ops, b \in Ops : Rank(a, b)

SpecOp == InitOp /\ [][NextOp]_vars

\* the levels of the operators, from the lowest: `and` `or`, then `==` `!=`,
\* then `<` `<=` `>` `>=`, then `+` `-`, then `*` `/` `%`, then the unary `not`
Level(o) ==
    CASE o \in {"And", "Or"} -> 0
      [] o \in {"Equal", "NotEqual"} -> 1
      [] o \in {"GreaterThan", "GreaterThanEqual", "LessThan", "LessThanEqual"} -> 2
      [] o \in {"Plus", "Minus"} -> 3
      [] o \in {"Mul", "Div", "Rem"} -> 4
      [] o = "Not" -> 5

\* C14: operators named at a higher level have a higher precedence, and
\* operators named at the same level have equal precedence.
C14_PrecedenceFollowsLevels ==
    last.op = "precedence" =>
        /\ (Level(last.a) < Level(last.b)) <=> (last.pa < last.pb)
        /\ (Level(last.a) = Level(last.b)) <=> (last.pa = last.pb)

(***************************************************************************)
(* List functions (src/src/builtin/list.rs)                                *)
(***************************************************************************)
MaxLen == 3

\* Value::List(items, separator, brackets), Value::Map and Value::Dimension
Value_List(v, sep, brackets) ==
    [kind |-> "list", s |-> sep, items |-> v, brackets |-> brackets]
Value_Map(m) == [kind |-> "map", s |-> "", items |-> m]
Dimension(num) == [kind |-> "dimension", s |-> "", items |-> <<>>, num |-> num]

\* SassMap::entries: every entry as the space list `key value`
entries(m) == [i \in 1..Len(m) |-> Value_List(<<m[i][1], m[i][2]>>, "Space", "None")]

\* impl PartialOrd for Number: the values are compared, a Machine value
\* lifted to the Big tier where the tiers differ
magnitude_cmp(self, other) ==
    IF WMul(self.numer, other.denom) = WMul(other.numer, self.denom) THEN "Equal"
    ELSE IF WLess(WMul(self.numer, other.denom), WMul(other.numer, self.denom)) THEN "Less"
    ELSE "Greater"

Number_partial_cmp(self, other) ==
    IF Number_is_negative(self) /\ ~Number_is_negative(other) THEN "Less"
    ELSE IF ~Number_is_negative(self) /\ Number_is_negative(other) THEN "Greater"
    ELSE IF Number_is_negative(self) THEN magnitude_cmp(other, self)
    ELSE magnitude_cmp(self, other)

Number_is_positive(self) == ~self.neg /\ self.numer # WZero
\* n.to_integer().to_usize().unwrap()
to_usize(n) == Integer_abs(Number_to_integer(n))

\* list.rs:28-32: a map counts as the list of its entries, any other value
\* as a list of one element
list_items(v) ==
    CASE v.kind = "list" -> v.items
      [] v.kind = "map" -> entries(v.items)
      [] OTHER -> <<v>>

\* list.rs:44-62: the index errors of nth and set-nth
index_error(len, n) ==
    IF Number_is_zero(n) THEN "$n: List index may not be 0."
    ELSE IF Number_partial_cmp(Number_abs(n), Number_from(len)) = "Greater"
    THEN "$n: Invalid index for a list."
    ELSE IF Number_is_decimal(n) THEN "$n: is not an int."
    ELSE ""

\* an index always counted from the front
list_index_front(len, n) == to_usize(Number_abs(n))

\* list.rs:64-68: the position (from 1) an index names
list_index(len, n) ==
    IF Number_is_positive(n) THEN (to_usize(n) - 1) + 1
    ELSE (len - to_usize(Number_abs(n))) + 1

nth_checked(list, n, err) ==
    IF err # "" THEN Err(err) ELSE Ok(list[list_index(Len(list), n)])

nth_of(list, n) ==
    IF n.kind # "dimension" THEN Err("$n: is not a number.")
    ELSE nth_checked(list, n.num, index_error(Len(list), n.num))

\* nth($list, $n)
nth(list, n) == nth_of(list_items(list), n)

\* list.rs:89-93: the elements, the separator and the brackets of $list
list_parts(v) ==
    CASE v.kind = "list" -> [items |-> v.items, sep |-> v.s, brackets |-> v.brackets]
      [] v.kind = "map" -> [items |-> entries(v.items), sep |-> "Comma", brackets |-> "None"]
      [] OTHER -> [items |-> <<v>>, sep |-> "Space", brackets |-> "None"]

\* a result that is always a plain space list
set_nth_plain(l, i, val) == Value_List([l.items EXCEPT ![i] = val], "Space", "None")

\* list.rs:125-131: the element replaced, separator and brackets kept
set_nth_list(l, i, val) == Value_List([l.items EXCEPT ![i] = val], l.sep, l.brackets)

set_nth_checked(l, n, val, err) ==
    IF err # "" THEN Err(err) ELSE Ok(set_nth_list(l, list_index(Len(l.items), n), val))

set_nth_of(l, n, val) ==
    IF n.kind # "dimension" THEN Err("$n: is not a number.")
    ELSE set_nth_checked(l, n.num, val, index_error(Len(l.items), n.num))

\* set-nth($list, $n, $value)
set_nth(list, n, val) == set_nth_of(list_parts(list), n, val)

\* list.rs:201-207: the separator `auto` stands for
join_auto(l1, l2) ==
    IF l1.items = <<>> \/ (Len(l1.items) = 1 /\ l1.sep = "Space") THEN l2.sep
    ELSE l1.sep

\* list.rs:193-228: $separator
join_separator(l1, l2, separator) ==
    IF separator.kind # "ident" THEN Err("$separator: is not a string.")
    ELSE CASE separator.s = "auto" -> Ok(join_auto(l1, l2))
           [] separator.s = "comma" -> Ok("Comma")
           [] separator.s = "space" -> Ok("Space")
           [] OTHER -> Err("$separator: Must be \"space\", \"comma\", or \"auto\".")

\* brackets that `auto` takes from $list2
join_brackets_second(l1, l2, bracketed) ==
    IF bracketed.kind = "ident"
    THEN (IF bracketed.s = "auto" THEN l2.brackets ELSE "Bracketed")
    ELSE IF is_true(bracketed) THEN "Bracketed" ELSE "None"

\* list.rs:230-248: $bracketed
join_brackets(l1, l2, bracketed) ==
    IF bracketed.kind = "ident"
    THEN (IF bracketed.s = "auto" THEN l1.brackets ELSE "Bracketed")
    ELSE IF is_true(bracketed) THEN "Bracketed" ELSE "None"

join_lists(l1, l2, sep, brackets) ==
    IF ~sep.ok THEN Err(sep.err)
    ELSE Ok(Value_List(l1.items \o l2.items, sep.val, brackets))

join_of(l1, l2, separator, bracketed) ==
    join_lists(l1, l2, join_separator(l1, l2, separator), join_brackets(l1, l2, bracketed))

\* join($list1, $list2, $separator: auto, $bracketed: auto)
join(list1, list2, separator, bracketed) ==
    join_of(list_parts(list1), list_parts(list2), separator, bracketed)

Separators == {"Space", "Comma"}
BracketKinds == {"None", "Bracketed"}

\* the lists of up to MaxLen of the elements, in every separator and bracket
ListsOf(elems) ==
    { Value_List(v, sep, b) :
        v \in SeqsUpTo(elems, MaxLen), sep \in Separators, b \in BracketKinds }

ListArgs ==
    ListsOf({Red, Blue})
        \cup { Value_Map(<<>>), Value_Map(<<<<Red, Blue>>>>),
               Value_Map(<<<<Red, Blue>>, <<Blue, Red>>>>), Solid }
FirstLists == ListsOf({Red}) \cup { Value_Map(<<<<Red, Red>>>>), Red }
SecondLists == ListsOf({Blue}) \cup { Value_Map(<<<<Blue, Blue>>>>), Blue }

\* $n: the integers around the lengths, halves between them, and a colour
IndexArgs ==
    { Dimension(Number(t, neg, W(k), W(d))) :
        t \in {"Machine"}, neg \in BOOLEAN, k \in 0..(MaxLen + 1), d \in {1} }
        \cup { Dimension(Number("Big", neg, W(k), W(2))) :
                 neg \in BOOLEAN, k \in {1, 3, 2 * MaxLen + 1} }
        \cup { Red }
SeparatorArgs == { Ident("auto"), Ident("comma"), Ident("space"), Ident("tab"), Null }
BracketedArgs == { Ident("auto"), Ident("true"), Null }

Called_builtin(name, args, res) ==
    /\ pc = "run"
    /\ last' = [op |-> name, err |-> res.err, args |-> args, ok |-> res.ok, val |-> res.val]
    /\ pc' = "done"
    /\ UNCHANGED <<global, local, sel, mixins, steps>>

Nth(list, n) == Called_builtin("nth", <<list, n>>, nth(list, n))
SetNth(list, n, val) == Called_builtin("set-nth", <<list, n, val>>, set_nth(list, n, val))
Join(list1, list2, separator, bracketed) ==
    Called_builtin("join", <<list1, list2, separator, bracketed>>,
                   join(list1, list2, separator, bracketed))

InitList ==
    /\ global = EmptyScope
    /\ local = EmptyScope
    /\ sel = <<>>
    /\ mixins = [m \in MixinNames |-> NoMixin]
    /\ last = [op |-> "none", err |-> ""]
    /\ steps = 0
    /\ pc = "run"

NextList ==
    \/ pc = "run" /\ \E list \in ListArgs, n \in IndexArgs : Nth(list, n)
    \/ pc = "run" /\ \E list \in ListArgs, n \in IndexArgs : SetNth(list, n, Solid)
    \/ pc = "run" /\ \E list1 \in FirstLists, list2 \in SecondLists,
                         separator \in SeparatorArgs, bracketed \in BracketedArgs :
                          Join(list1, list2, separator, bracketed)

SpecList == InitList /\ [][NextList]_vars

\* what the properties read off a call: the list an argument stands for, and
\* the integer an index argument holds (0 when it holds none)
AsList(v) ==
    IF v.kind = "list" THEN v.items
    ELSE IF v.kind = "map"
    THEN [i \in 1..Len(v.items) |->
             [kind |-> "list", s |-> "Space", items |-> <<v.items[i][1], v.items[i][2]>>,
              brackets |-> "None"]]
    ELSE <<v>>

IsInt(n) == n.kind = "dimension" /\ n.num.denom = W(1)
IntOf(n) == IF n.num.neg THEN 0 - n.num.numer.lo ELSE n.num.numer.lo
ValidIndex(n, len) == IsInt(n) /\ IntOf(n) # 0 /\ IntOf(n) >= 0 - len /\ IntOf(n) <= len
Position(n, len) == IF IntOf(n) > 0 THEN IntOf(n) ELSE len + IntOf(n) + 1

\* C15: nth(list, n) returns the n-th element from the front for 1 <= n <= len
\* and the element at len + n + 1 for -len <= n <= -1; n = 0, |n| > len and a
\* non-integer n are errors; a map is indexed as its list of entries and any
\* other value as a one-element list.
C15_NthIndexesFromBothEnds ==
    last.op = "nth" =>
        IF ValidIndex(last.args[2], Len(AsList(last.args[1])))
        THEN /\ last.ok
             /\ last.val = AsList(last.args[1])[Position(last.args[2],
                                                         Len(AsList(last.args[1])))]
        ELSE ~last.ok /\ last.err # ""

\* nth of a three-element list with the index -1, and nth of a map
C15_Witness ==
    /\ last.op = "nth"
    /\ last.args[1].kind = "list"
    /\ last.args[1].items = <<Red, Blue, Blue>>
    /\ last.args[2] = Dimension(Machine(TRUE, W(1), W(1)))
    /\ last.val = Blue

\* C16: set-nth(list, n, value) with a valid index returns a list with the
\* separator, the brackets and the length of the original in which the
\* element at n is value and every other element is unchanged; with n = 0,
\* |n| > length or a non-integer n it is an error.
C16_SetNthKeepsTheRest ==
    (last.op = "set-nth" /\ last.args[1].kind = "list") =>
        IF ValidIndex(last.args[2], Len(last.args[1].items))
        THEN /\ last.ok
             /\ last.val.kind = "list"
             /\ last.val.s = last.args[1].s
             /\ last.val.brackets = last.args[1].brackets
             /\ Len(last.val.items) = Len(last.args[1].items)
             /\ \A i \in 1..Len(last.val.items) :
                    last.val.items[i] =
                        IF i = Position(last.args[2], Len(last.args[1].items))
                        THEN last.args[3] ELSE last.args[1].items[i]
        ELSE ~last.ok /\ last.err # ""

\* set-nth on a bracketed comma list of three with the index -2
C16_Witness ==
    /\ last.op = "set-nth"
    /\ last.args[1] = [kind |-> "list", s |-> "Comma", items |-> <<Red, Blue, Red>>,
                       brackets |-> "Bracketed"]
    /\ last.args[2] = Dimension(Machine(TRUE, W(2), W(1)))
    /\ last.ok
    /\ last.val.items = <<Red, Solid, Red>>

JoinAuto == last.op = "join" /\ last.args[3] = Ident("auto") /\ last.args[4] = Ident("auto")
FirstSep == IF last.args[1].kind = "list" THEN last.args[1].s
            ELSE IF last.args[1].kind = "map" THEN "Comma" ELSE "Space"
SecondSep == IF last.args[2].kind = "list" THEN last.args[2].s
             ELSE IF last.args[2].kind = "map" THEN "Comma" ELSE "Space"
FirstBrackets == IF last.args[1].kind = "list" THEN last.args[1].brackets ELSE "None"
SecondBrackets == IF last.args[2].kind = "list" THEN last.args[2].brackets ELSE "None"
JoinElements ==
    /\ last.ok
    /\ last.val.kind = "list"
    /\ last.val.items = AsList(last.args[1]) \o AsList(last.args[2])
    /\ last.val.s = IF AsList(last.args[1]) = <<>>
                       \/ (Len(AsList(last.args[1])) = 1 /\ FirstSep = "Space")
                    THEN SecondSep ELSE FirstSep

\* C17 as stated: join of an empty list1 and list2 with the separator `auto`
\* is list2 with list2's separator and list2's brackets; in general the
\* elements are list1's followed by list2's and `auto` is list2's separator
\* when list1 is empty or a one-element space list, else list1's.
C17_JoinEmptyReturnsSecond ==
    JoinAuto =>
        /\ JoinElements
        /\ AsList(last.args[1]) = <<>> => last.val.brackets = SecondBrackets

\* C17 amended: as above, with the brackets of list1.
C17_JoinKeepsFirstBrackets ==
    JoinAuto =>
        /\ JoinElements
        /\ last.val.brackets = FirstBrackets

\* an empty bracketed list joined with a plain comma list of two
C17_Witness ==
    /\ JoinAuto
    /\ last.args[1] = [kind |-> "list", s |-> "Space", items |-> <<>>,
                       brackets |-> "Bracketed"]
    /\ last.args[2] = [kind |-> "list", s |-> "Comma", items |-> <<Blue, Blue>>,
                       brackets |-> "None"]
    /\ last.val = [kind |-> "list", s |-> "Comma", items |-> <<Blue, Blue>>,
                   brackets |-> "Bracketed"]

(***************************************************************************)
(* Colour functions (src/src/builtin/color/other.rs)                       *)
(***************************************************************************)
\* impl Add for Number and impl Sub for Number, on sign and magnitude (the
\* checked operations of the Machine tier never overflow on the values of
\* the model)
Number_tier(self, other) ==
    IF self.tier = "Machine" /\ other.tier = "Machine" THEN "Machine" ELSE "Big"

sub_magnitudes(tier, sneg, oneg, x, y, d) ==
    IF WLeq(y, x) THEN Number(tier, sneg /\ x # y, WSub(x, y), d)
    ELSE Number(tier, oneg, WSub(y, x), d)

Number_add(self, other) ==
    IF self.neg = other.neg
    THEN Number(Number_tier(self, other), self.neg,
                WAdd(WMul(self.numer, other.denom), WMul(other.numer, self.denom)),
                WMul(self.denom, other.denom))
    ELSE sub_magnitudes(Number_tier(self, other), self.neg, other.neg,
                        WMul(self.numer, other.denom), WMul(other.numer, self.denom),
                        WMul(self.denom, other.denom))

Number_neg(self) == [self EXCEPT !.neg = ~self.neg /\ self.numer # WZero]
Number_sub(self, other) == Number_add(self, Number_neg(other))

\* Value::Dimension(n, Unit::Percent) and Value::Color
Percent(num) == [Dimension(num) EXCEPT !.s = "%"]
Value_Color(c) == [kind |-> "color", s |-> "", items |-> <<>>, c |-> c]

\* a Color by what it was made from: Color::from_rgba, Color::from_hsla and
\* Color::with_alpha; a colour of the source text has both triples
Color(rgb, hsl, alpha) == [rgb |-> rgb, hsl |-> hsl, alpha |-> alpha]
Color_from_rgba(red, green, blue, alpha) == Color(<<red, green, blue>>, <<>>, alpha)
Color_from_hsla(hue, saturation, luminance, alpha) ==
    Color(<<>>, <<hue, saturation, luminance>>, alpha)
Color_with_alpha(c, alpha) == [c EXCEPT !.alpha = alpha]

\* Option<Number>, or the error the macro returns with
Some(n) == [err |-> "", some |-> TRUE, val |-> n]
None == [err |-> "", some |-> FALSE, val |-> Number_from(0)]
Failed(msg) == [err |-> msg, some |-> FALSE, val |-> Number_from(0)]
unwrap_or(o, d) == IF o.some THEN o.val ELSE d
over_hundred(o) ==
    IF o.some THEN Some(Number_div(o.val, Number_from(100)).val) ELSE o

\* bound!: the number when it lies in [low, high]
bound(n, low, high) ==
    IF Number_partial_cmp(n, Number_from(high)) = "Greater"
       \/ Number_partial_cmp(n, Number_from(low)) = "Less"
    THEN Failed("must be between low and high")
    ELSE Some(n)

opt_rgba(v, low, high) ==
    IF v.kind = "dimension" THEN bound(v.num, low, high)
    ELSE IF v = Null THEN None
    ELSE Failed("is not a number.")

opt_hsl(v, low, high) == over_hundred(opt_rgba(v, low, high))

\* $hue of change-color and adjust-color
opt_hue(v) ==
    IF v.kind = "dimension" THEN Some(v.num)
    ELSE IF v = Null THEN None
    ELSE Failed("is not a number.")

opt_scale_arg(v, low, high) ==
    IF v.kind = "dimension" /\ v.s = "%" THEN over_hundred(bound(v.num, low, high))
    ELSE IF v.kind = "dimension" THEN Failed("Expected to have unit \"%\".")
    ELSE IF v = Null THEN None
    ELSE Failed("is not a number.")

\* the error of the first macro that returned with one
first_error(os) ==
    IF \A i \in 1..Len(os) : os[i].err = "" THEN ""
    ELSE os[CHOOSE i \in 1..Len(os) :
                os[i].err # "" /\ \A j \in 1..(i - 1) : os[j].err = ""].err

any_some(os) == \E i \in 1..Len(os) : os[i].some

\* change-color: other.rs:90-128
change_hsl(c, alpha, hue, saturation, luminance) ==
    IF first_error(<<hue, saturation, luminance>>) # ""
    THEN Err(first_error(<<hue, saturation, luminance>>))
    ELSE IF any_some(<<hue, saturation, luminance>>)
    THEN Ok(Value_Color(Color_from_hsla(unwrap_or(hue, c.hsl[1]),
                                        unwrap_or(saturation, c.hsl[2]),
                                        unwrap_or(luminance, c.hsl[3]),
                                        unwrap_or(alpha, c.alpha))))
    ELSE Ok(Value_Color(IF alpha.some THEN Color_with_alpha(c, alpha.val) ELSE c))

\* change-color: other.rs:76-88
change_rgb(c, a, alpha, red, green, blue) ==
    IF first_error(<<alpha, red, green, blue>>) # ""
    THEN Err(first_error(<<alpha, red, green, blue>>))
    ELSE IF any_some(<<red, green, blue>>)
    THEN Ok(Value_Color(Color_from_rgba(unwrap_or(red, c.rgb[1]),
                                        unwrap_or(green, c.rgb[2]),
                                        unwrap_or(blue, c.rgb[3]),
                                        unwrap_or(alpha, c.alpha))))
    ELSE change_hsl(c, alpha, opt_hue(a.hue), opt_hsl(a.saturation, 0, 100),
                    opt_hsl(a.lightness, 0, 100))

\* change-color($color, ...) with the named arguments a
change_color(color, a) ==
    IF color.kind # "color" THEN Err("$color: is not a color.")
    ELSE change_rgb(color.c, a, opt_rgba(a.alpha, 0, 1), opt_rgba(a.red, 0, 255),
                    opt_rgba(a.green, 0, 255), opt_rgba(a.blue, 0, 255))

zero_or(o) == unwrap_or(o, Number_from(0))

\* adjust-color: other.rs:157-204
adjust_hsl(c, alpha, hue, saturation, luminance) ==
    IF first_error(<<hue, saturation, luminance>>) # ""
    THEN Err(first_error(<<hue, saturation, luminance>>))
    ELSE IF any_some(<<hue, saturation, luminance>>)
    THEN Ok(Value_Color(Color_from_hsla(Number_add(c.hsl[1], zero_or(hue)),
                                        Number_add(c.hsl[2], zero_or(saturation)),
                                        Number_add(c.hsl[3], zero_or(luminance)),
                                        Number_add(c.alpha, zero_or(alpha)))))
    ELSE Ok(Value_Color(IF alpha.some
                        THEN Color_with_alpha(c, Number_add(c.alpha, alpha.val))
                        ELSE c))

\* adjust-color: other.rs:143-155
adjust_rgb(c, a, alpha, red, green, blue) ==
    IF first_error(<<alpha, red, green, blue>>) # ""
    THEN Err(first_error(<<alpha, red, green, blue>>))
    ELSE IF any_some(<<red, green, blue>>)
    THEN Ok(Value_Color(Color_from_rgba(Number_add(c.rgb[1], zero_or(red)),
                                        Number_add(c.rgb[2], zero_or(green)),
                                        Number_add(c.rgb[3], zero_or(blue)),
                                        Number_add(c.alpha, zero_or(alpha)))))
    ELSE adjust_hsl(c, alpha, opt_hue(a.hue), opt_hsl(a.saturation, -100, 100),
                    opt_hsl(a.lightness, -100, 100))

\* adjust-color($color, ...) with the named arguments a
adjust_color(color, a) ==
    IF color.kind # "color" THEN Err("$color: is not a color.")
    ELSE adjust_rgb(color.c, a, opt_rgba(a.alpha, -1, 1), opt_rgba(a.red, -255, 255),
                    opt_rgba(a.green, -255, 255), opt_rgba(a.blue, -255, 255))

\* a scale that always moves by a share of the value itself
scale_of_value(val, by, max) ==
    IF Number_is_zero(by) THEN val
    ELSE Number_add(val, Number_mul(val, by))

\* scale_color::scale
scale(val, by, max) ==
    IF Number_is_zero(by) THEN val
    ELSE Number_add(val, Number_mul(IF Number_is_positive(by)
                                    THEN Number_sub(max, val) ELSE val, by))

\* scale-color: other.rs:290-337
scale_hsl(c, alpha, saturation, luminance) ==
    IF first_error(<<saturation, luminance>>) # ""
    THEN Err(first_error(<<saturation, luminance>>))
    ELSE IF any_some(<<saturation, luminance>>)
    THEN Ok(Value_Color(Color_from_hsla(
                scale(c.hsl[1], Number_from(0), Number_from(360)),
                scale(c.hsl[2], zero_or(saturation), Number_from(1)),
                scale(c.hsl[3], zero_or(luminance), Number_from(1)),
                scale(c.alpha, zero_or(alpha), Number_from(1)))))
    ELSE Ok(Value_Color(IF alpha.some
                        THEN Color_with_alpha(c, scale(c.alpha, alpha.val, Number_from(1)))
                        ELSE c))

\* scale-color: other.rs:260-288
scale_rgb(c, a, alpha, red, green, blue) ==
    IF first_error(<<alpha, red, green, blue>>) # ""
    THEN Err(first_error(<<alpha, red, green, blue>>))
    ELSE IF any_some(<<red, green, blue>>)
    THEN Ok(Value_Color(Color_from_rgba(
                scale(c.rgb[1], zero_or(red), Number_from(255)),
                scale(c.rgb[2], zero_or(green), Number_from(255)),
                scale(c.rgb[3], zero_or(blue), Number_from(255)),
                scale(c.alpha, zero_or(alpha), Number_from(1)))))
    ELSE scale_hsl(c, alpha, opt_scale_arg(a.saturation, -100, 100),
                   opt_scale_arg(a.lightness, -100, 100))

\* scale-color($color, ...) with the named arguments a
scale_color(color, a) ==
    IF color.kind # "color" THEN Err("$color: is not a color.")
    ELSE scale_rgb(color.c, a, opt_scale_arg(a.alpha, -100, 100),
                   opt_scale_arg(a.red, -100, 100), opt_scale_arg(a.green, -100, 100),
                   opt_scale_arg(a.blue, -100, 100))

RgbNames == {"red", "green", "blue"}
HslNames == {"hue", "saturation", "lightness"}
ArgNames == {"alpha"} \cup RgbNames \cup HslNames

Half == Machine(FALSE, W(1), W(2))
\* #ff0000, #00ffff at half opacity, #ffffff and transparent black
Colors ==
    { Color(<<Number_from(255), Number_from(0), Number_from(0)>>,
            <<Number_from(0), Number_from(1), Half>>, Number_from(1)),
      Color(<<Number_from(0), Number_from(255), Number_from(255)>>,
            <<Number_from(180), Number_from(1), Half>>, Half),
      Color(<<Number_from(255), Number_from(255), Number_from(255)>>,
            <<Number_from(0), Number_from(0), Number_from(1)>>, Number_from(1)),
      Color(<<Number_from(0), Number_from(0), Number_from(0)>>,
            <<Number_from(0), Number_from(0), Number_from(0)>>, Number_from(0)) }
ColorArgs == { Value_Color(c) : c \in Colors } \cup { Red }

Amounts == {-150, -100, -50, 0, 50, 100}
NamedValues ==
    { Percent(Number_from(p)) : p \in Amounts }
        \cup { Dimension(Number_from(1)), Dimension(Number_from(50)), Red }

\* a call with at most two arguments passed by name
ByName(n1, v1, n2, v2) ==
    [n \in ArgNames |-> IF n = n1 THEN v1 ELSE IF n = n2 THEN v2 ELSE Null]
ColorCalls ==
    { ByName(n1, v1, n2, v2) :
        n1 \in ArgNames, n2 \in ArgNames, v1 \in NamedValues \cup {Null}, v2 \in NamedValues }

ChangeColor(color, a) == Called_builtin("change-color", <<color, a>>, change_color(color, a))
AdjustColor(color, a) == Called_builtin("adjust-color", <<color, a>>, adjust_color(color, a))
ScaleColor(color, a) == Called_builtin("scale-color", <<color, a>>, scale_color(color, a))

InitColor ==
    /\ global = EmptyScope
    /\ local = EmptyScope
    /\ sel = <<>>
    /\ mixins = [m \in MixinNames |-> NoMixin]
    /\ last = [op |-> "none", err |-> ""]
    /\ steps = 0
    /\ pc = "run"

NextColor ==
    \/ pc = "run" /\ \E color \in ColorArgs, a \in ColorCalls : ChangeColor(color, a)
    \/ pc = "run" /\ \E color \in ColorArgs, a \in ColorCalls : AdjustColor(color, a)
    \/ pc = "run" /\ \E color \in ColorArgs, a \in ColorCalls : ScaleColor(color, a)

SpecColor == InitColor /\ [][NextColor]_vars

\* the properties read a call by its arguments: which names were passed,
\* the percentage of one, and the channel of a colour a name stands for
Passed(names) == { n \in names : last.args[2][n] # Null }
Mixed == Passed(RgbNames) # {} /\ Passed(HslNames) # {}
Pct(n) ==
    IF last.args[2][n].kind # "dimension" THEN 0
    ELSE IF last.args[2][n].num.neg THEN 0 - last.args[2][n].num.numer.lo
    ELSE last.args[2][n].num.numer.lo
ValidPct(n) ==
    last.args[2][n] = Null
        \/ (last.args[2][n].kind = "dimension" /\ last.args[2][n].s = "%"
            /\ Pct(n) >= -100 /\ Pct(n) <= 100)
Scaled == {"alpha", "red", "green", "blue", "saturation", "lightness"}
Channel(c, n) ==
    CASE n = "alpha" -> c.alpha
      [] n = "red" -> c.rgb[1]
      [] n = "green" -> c.rgb[2]
      [] n = "blue" -> c.rgb[3]
      [] n = "saturation" -> c.hsl[2]
      [] n = "lightness" -> c.hsl[3]
HasChannel(c, n) ==
    CASE n = "alpha" -> TRUE
      [] n \in RgbNames -> c.rgb # <<>>
      [] OTHER -> c.hsl # <<>>
MaxOf(n) == IF n \in RgbNames THEN 255 ELSE 1

\* v + (max - v) * by/100 for by > 0 and v + v * by/100 for by <= 0, as the
\* numerator over the denominator 100 * vd of a channel v = vn / vd
ScaledNumer(vn, vd, max, by) ==
    IF by > 0 THEN vn * 100 + (max * vd - vn) * by ELSE vn * 100 + vn * by
IsScaled(r, v, max, by) ==
    /\ ~r.neg
    /\ r.numer.hi = 0 /\ r.denom.hi = 0
    /\ r.numer.lo * (v.denom.lo * 100) = ScaledNumer(v.numer.lo, v.denom.lo, max, by) * r.denom.lo
    /\ r.numer.lo <= max * r.denom.lo
    /\ by = 100 => r.numer.lo = max * r.denom.lo
    /\ by = -100 => r.numer.lo = 0
    /\ by = 0 => r = v

\* C18: scale-color scales each named channel v with maximum max by a
\* percentage in [-100%, 100%] to v + (max - v) * by/100 for by > 0 and to
\* v + v * by/100 for by < 0, leaves it v for by = 0, and the result stays
\* in [0, max], max at 100% and 0 at -100%; stated for the calls that name
\* channels of one family.
C18_ScaleMovesTowardTheEnds ==
    (/\ last.op = "scale-color"
     /\ last.args[1].kind = "color"
     /\ ~Mixed
     /\ \A n \in Scaled : ValidPct(n)) =>
        /\ last.ok
        /\ last.val.kind = "color"
        /\ \A n \in Scaled :
               HasChannel(last.val.c, n) =>
                   IsScaled(Channel(last.val.c, n), Channel(last.args[1].c, n),
                            MaxOf(n), Pct(n))
        /\ \A n \in Passed(Scaled) : HasChannel(last.val.c, n)

\* scale-color(#ff0000, $lightness: 50%) has the lightness 3/4, midway
\* between 1/2 and 1
C18_Witness ==
    /\ last.op = "scale-color"
    /\ last.args[1].kind = "color"
    /\ last.args[1].c.rgb[1] = Number_from(255)
    /\ last.args[1].c.hsl[3] = Half
    /\ Passed(ArgNames) = {"lightness"}
    /\ Pct("lightness") = 50
    /\ last.ok
    /\ last.val.c.hsl # <<>>
    /\ last.val.c.hsl[3].numer.lo * 4 = 3 * last.val.c.hsl[3].denom.lo

\* C19: a call of change-color, adjust-color or scale-color that passes an
\* RGB argument together with an HSL argument is an error.
C19_MixedFamiliesAreAnError ==
    (last.op \in {"change-color", "adjust-color", "scale-color"} /\ Mixed) => ~last.ok

(***************************************************************************)
(* Parenthesised values and map literals (src/src/value/parse.rs)          *)
(***************************************************************************)
MaxEntries == 3

Value_Paren(v) == [kind |-> "paren", s |-> "", items |-> <<v>>]

\* SassMap: the entries in insertion order; insert replaces the value of an
\* equal key and reports that the key was there
SassMap_new == <<>>
SassMap_has(m, key) == \E i \in 1..Len(m) : m[i][1] = key
SassMap_insert(m, key, val) ==
    [existed |-> SassMap_has(m, key),
     map |-> IF SassMap_has(m, key)
             THEN [i \in 1..Len(m) |-> IF m[i][1] = key THEN <<key, val>> ELSE m[i]]
             ELSE Append(m, <<key, val>>)]

\* read_until_char: the tokens before the first c, which is consumed
RECURSIVE read_until_char(_, _)
read_until_char(toks, c) ==
    IF toks = <<>> THEN [read |-> <<>>, rest |-> <<>>]
    ELSE IF Head(toks).kind = c THEN [read |-> <<>>, rest |-> Tail(toks)]
    ELSE [read |-> <<Head(toks)>> \o read_until_char(Tail(toks), c).read,
          rest |-> read_until_char(Tail(toks), c).rest]

\* Value::from_vec on the tokens of a key or of a value: one identifier, or
\* a space list of several
paren_from_vec(toks) ==
    IF toks = <<>> THEN Err("Expected expression.")
    ELSE IF Len(toks) = 1 THEN Ok(Ident(toks[1].s))
    ELSE Ok(Value_List([i \in 1..Len(toks) |-> Ident(toks[i].s)], "Space", "None"))

RECURSIVE paren_loop(_, _)

\* an entry taken whether or not its key was there
paren_entry_unchecked(ins, rest) ==
    IF rest = <<>> THEN Ok(Value_Map(ins.map)) ELSE paren_loop(ins.map, rest)

\* parse.rs:177-182: the entry just inserted
paren_entry(ins, rest) ==
    IF ins.existed THEN Err("Duplicate key.")
    ELSE IF rest = <<>> THEN Ok(Value_Map(ins.map))
    ELSE paren_loop(ins.map, rest)

paren_insert(map, key, val, rest) ==
    IF ~key.ok THEN Err(key.err)
    ELSE IF ~val.ok THEN Err(val.err)
    ELSE paren_entry(SassMap_insert(map, key.val, val.val), rest)

paren_pair(map, k, v) ==
    paren_insert(map, paren_from_vec(k.read), paren_from_vec(v.read), v.rest)

paren_key(map, k) == paren_pair(map, k, read_until_char(k.rest, ","))

\* parse.rs:170-182: the entries after the first
paren_loop(map, toks) == paren_key(map, read_until_char(toks, ":"))

\* parse.rs:156-166: the first entry, inserted into the new map
paren_first_entry(ins, rest) ==
    IF rest = <<>> THEN Ok(Value_Map(ins.map)) ELSE paren_loop(ins.map, rest)

paren_first_insert(key, val, rest) ==
    IF ~val.ok THEN Err(val.err)
    ELSE paren_first_entry(SassMap_insert(SassMap_new, key.val, val.val), rest)

paren_first_pair(key, v) == paren_first_insert(key, paren_from_vec(v.read), v.rest)

\* parse.rs:145-154: one value in parentheses, or the first key of a map
paren_first(key, rest) ==
    IF ~key.ok THEN Err(key.err)
    ELSE IF rest = <<>> THEN Ok(Value_Paren(key.val))
    ELSE paren_first_pair(key, read_until_char(rest, ","))

paren_start(k) == paren_first(paren_from_vec(k.read), k.rest)

\* parse_paren: the value pushed for the tokens between the parentheses
parse_paren(t) ==
    IF t = <<>> THEN Ok(Value_List(<<>>, "Space", "None"))
    ELSE paren_start(read_until_char(t, ":"))

MapKeys == {"red", "blue", "solid"}
MapVals == {"red", "blue"}

\* the tokens of `key: value, key: value, ...`
RECURSIVE EntryToks(_)
EntryToks(es) ==
    IF es = <<>> THEN <<>>
    ELSE <<IdTok(Head(es)[1]), Punct(":"), IdTok(Head(es)[2])>>
             \o (IF Tail(es) = <<>> THEN <<>> ELSE <<Punct(",")>>)
             \o EntryToks(Tail(es))

ParenToks ==
    { EntryToks(es) : es \in SeqsUpTo(MapKeys \X MapVals, MaxEntries) }
        \cup { <<IdTok(k)>> : k \in MapKeys }

ParseParen(t) ==
    /\ pc = "run"
    /\ last' = [op |-> "parse_paren", err |-> parse_paren(t).err, args |-> <<t>>,
                ok |-> parse_paren(t).ok, val |-> parse_paren(t).val]
    /\ pc' = "done"
    /\ UNCHANGED <<global, local, sel, mixins, steps>>

InitParen ==
    /\ global = EmptyScope
    /\ local = EmptyScope
    /\ sel = <<>>
    /\ mixins = [m \in MixinNames |-> NoMixin]
    /\ last = [op |-> "none", err |-> ""]
    /\ steps = 0
    /\ pc = "run"

NextParen == pc = "run" /\ \E t \in ParenToks : ParseParen(t)

SpecParen == InitParen /\ [][NextParen]_vars

\* the keys and the values of the source text, read off the token positions
SourceEntries(t) == (Len(t) + 1) \div 4
SourceKey(t, i) == t[4 * i - 3].s
SourceVal(t, i) == t[4 * i - 1].s
RepeatedKey(t) ==
    \E i, j \in 1..SourceEntries(t) : i < j /\ SourceKey(t, i) = SourceKey(t, j)

\* C20: a map literal in which two entries have equal keys is rejected with
\* "Duplicate key.", whichever positions the two entries have; a map that is
\* returned has pairwise distinct keys (and the entries of the source).
C20_DuplicateKeyRejected ==
    last.op = "parse_paren" =>
        IF RepeatedKey(last.args[1])
        THEN ~last.ok /\ last.err = "Duplicate key."
        ELSE /\ last.ok
             /\ last.val.kind = "map" =>
                    /\ Len(last.val.items) = SourceEntries(last.args[1])
                    /\ \A i \in 1..Len(last.val.items) :
                           last.val.items[i] = <<Ident(SourceKey(last.args[1], i)),
                                                 Ident(SourceVal(last.args[1], i))>>
                    /\ \A i, j \in 1..Len(last.val.items) :
                           i # j => last.val.items[i][1] # last.val.items[j][1]

\* (red: red, blue: red, red: blue): the first and the third key are equal
C20_Witness ==
    /\ last.op = "parse_paren"
    /\ SourceEntries(last.args[1]) = 3
    /\ SourceKey(last.args[1], 1) = "red"
    /\ SourceKey(last.args[1], 2) = "blue"
    /\ SourceKey(last.args[1], 3) = "red"
    /\ last.err = "Duplicate key."

(***************************************************************************)
(* Hex colours (src/src/value/parse.rs, parse_hex)                         *)
(***************************************************************************)
MaxHex == 9

\* char::is_ascii_digit, char::is_ascii_hexdigit and the value of a hex digit
is_ascii_digit(c) == c \in {"1"}
is_ascii_hexdigit(c) == c \in {"1", "a"}
hex_digit(c) == IF c = "a" THEN 10 ELSE 1

\* Color::new(red, green, blue, alpha, repr) as a value
Color_new(red, green, blue, alpha, repr) ==
    [kind |-> "color", s |-> repr, items |-> <<>>,
     c |-> [red |-> red, green |-> green, blue |-> blue, alpha |-> alpha]]

\* format!("#{}", s), QuoteKind::None
hash_ident(s) == [kind |-> "ident", s |-> <<"#">> \o s, items |-> <<>>]

\* parse.rs:45-52: hex digits are taken while there are any, eight at most
RECURSIVE hex_run(_, _)
hex_run(s, toks) ==
    IF toks = <<>> \/ ~is_ascii_hexdigit(Head(toks)) \/ Len(s) = 8
    THEN [s |-> s, rest |-> toks]
    ELSE hex_run(Append(s, Head(toks)), Tail(toks))

\* eat_ident on the characters of the model, all of which are name characters
hex_eat_ident(toks) == [s |-> toks, rest |-> <<>>]

\* the mask and shift of the code select one hex digit (3 and 4 digits, times
\* 0x11) or two (6 and 8 digits)
nibble(s, i) == hex_digit(s[i]) * 17
byte(s, i) == hex_digit(s[i]) * 16 + hex_digit(s[i + 1])

\* parse.rs:65-109
hex_color(s) ==
    CASE Len(s) = 3 -> Ok(Color_new(nibble(s, 1), nibble(s, 2), nibble(s, 3), 1, <<"#">> \o s))
      [] Len(s) = 4 -> Ok(Color_new(nibble(s, 1), nibble(s, 2), nibble(s, 3), nibble(s, 4),
                                    <<"#">> \o s))
      [] Len(s) = 6 -> Ok(Color_new(byte(s, 1), byte(s, 3), byte(s, 5), 1, <<"#">> \o s))
      [] Len(s) = 8 -> Ok(Color_new(byte(s, 1), byte(s, 3), byte(s, 5), byte(s, 7),
                                    <<"#">> \o s))
      [] OTHER -> Err("Expected hex digit.")

\* parse.rs:54-63
hex_of_ident(i) ==
    IF \A k \in 1..Len(i.s) : is_ascii_hexdigit(i.s[k])
    THEN [res |-> hex_color(i.s), rest |-> i.rest]
    ELSE [res |-> Ok(hash_ident(i.s)), rest |-> i.rest]

hex_of_run(r) == [res |-> hex_color(r.s), rest |-> r.rest]

\* parse_hex on the characters after the `#`
parse_hex(toks) ==
    IF toks = <<>> THEN [res |-> Err("Expected identifier."), rest |-> toks]
    ELSE IF is_ascii_digit(Head(toks)) THEN hex_of_run(hex_run(<<>>, toks))
    ELSE hex_of_ident(hex_eat_ident(toks))

HexChars == {"1", "a", "g"}

ParseHexDone(toks, r) ==
    /\ last' = [op |-> "parse_hex", err |-> r.res.err, args |-> <<toks>>,
                ok |-> r.res.ok, val |-> r.res.val, rest |-> r.rest]
    /\ pc' = "done"
    /\ UNCHANGED <<global, local, sel, mixins, steps>>

ParseHex(toks) == ParseHexDone(toks, parse_hex(toks))

InitHex ==
    /\ global = EmptyScope
    /\ local = EmptyScope
    /\ sel = <<>>
    /\ mixins = [m \in MixinNames |-> NoMixin]
    /\ last = [op |-> "none", err |-> ""]
    /\ steps = 0
    /\ pc = "run"

NextHex == pc = "run" /\ \E toks \in SeqsUpTo(HexChars, MaxHex) : ParseHex(toks)

SpecHex == InitHex /\ [][NextHex]_vars

AllHex(toks) == toks # <<>> /\ \A k \in 1..Len(toks) : toks[k] \in {"1", "a"}
DigitOf(c) == IF c = "a" THEN 10 ELSE 1

\* C21: `#` followed by hex digits is a colour exactly when there are 3, 4, 6
\* or 8 of them (one digit d per channel giving d * 17, the fourth digit or
\* pair being alpha); a run of any other length is the unquoted identifier
\* `#xxx`, not an error.
C21_HexLengthsOtherwiseIdentifier ==
    (last.op = "parse_hex" /\ AllHex(last.args[1])) =>
        /\ last.ok
        /\ IF Len(last.args[1]) \in {3, 4, 6, 8}
           THEN /\ last.val.kind = "color"
                /\ Len(last.args[1]) = 3 =>
                       last.val.c = [red |-> DigitOf(last.args[1][1]) * 17,
                                     green |-> DigitOf(last.args[1][2]) * 17,
                                     blue |-> DigitOf(last.args[1][3]) * 17,
                                     alpha |-> 1]
                /\ Len(last.args[1]) = 4 =>
                       last.val.c.alpha = DigitOf(last.args[1][4]) * 17
           ELSE last.val = [kind |-> "ident", s |-> <<"#">> \o last.args[1], items |-> <<>>]

(***************************************************************************)
(* Number: tiers, equality and order (src/src/value/number/mod.rs)         *)
(***************************************************************************)
\* impl Rem for Number: every arm lifts to BigRational and is Big; Ratio's %
\* truncates, so the remainder has the sign of the dividend, and panics on a
\* zero divisor
rem_value(self, other, r) ==
    Number("Big", self.neg /\ r # WZero, r, WMul(self.denom, other.denom))

Number_rem(self, other) ==
    IF Number_is_zero(other) THEN [kind |-> "panic", val |-> Big(FALSE, WZero, W(1))]
    ELSE [kind |-> "value",
          val |-> rem_value(self, other, WRem(WMul(self.numer, other.denom),
                                              WMul(self.denom, other.numer)))]

\* BigRational::new_raw(BigInt::from(tuple.0), BigInt::from(tuple.1))
promote(n) == [n EXCEPT !.tier = "Big"]

\* #[derive(PartialEq)]: the same variant holding equal ratios
Number_eq(self, other) ==
    self.tier = other.tier /\ Number_partial_cmp(self, other) = "Equal"

\* #[derive(Ord)]: the variants in their order of declaration, Machine before
\* Big, and the ratios within one variant
Number_cmp(self, other) ==
    IF self.tier = other.tier THEN Number_partial_cmp(self, other)
    ELSE IF self.tier = "Machine" THEN "Less" ELSE "Greater"

Value_of(n) == [kind |-> "value", val |-> n]

\* a op b
Number_op(op, a, b) ==
    CASE op = "add" -> Value_of(Number_add(a, b))
      [] op = "sub" -> Value_of(Number_sub(a, b))
      [] op = "mul" -> Value_of(Number_mul(a, b))
      [] op = "div" -> Number_div(a, b)
      [] op = "rem" -> Number_rem(a, b)

ArithDone(op, a, b, r, p) ==
    /\ last' = [op |-> op, err |-> "", self |-> a, other |-> b,
                kind |-> r.kind, val |-> r.val, promoted |-> p.val,
                eq |-> Number_eq(r.val, p.val),
                same_print |-> (r.kind = "value" => Number_fmt(r.val) = Number_fmt(p.val))]
    /\ pc' = IF r.kind = "panic" THEN "abort" ELSE "done"
    /\ UNCHANGED <<global, local, sel, mixins, steps>>

Arith(op, a, b) == ArithDone(op, a, b, Number_op(op, a, b), Number_op(op, promote(a), promote(b)))

NumAdd(a, b) == Arith("add", a, b)
NumSub(a, b) == Arith("sub", a, b)
NumMul(a, b) == Arith("mul", a, b)
NumDiv(a, b) == Arith("div", a, b)
NumRem(a, b) == Arith("rem", a, b)

Compare(x, y) ==
    /\ last' = [op |-> "compare", err |-> "", self |-> x, other |-> y,
                eq |-> Number_eq(x, y), partial_cmp |-> Number_partial_cmp(x, y),
                cmp |-> Number_cmp(x, y)]
    /\ pc' = "done"
    /\ UNCHANGED <<global, local, sel, mixins, steps>>

InitArith ==
    /\ global = EmptyScope
    /\ local = EmptyScope
    /\ sel = <<>>
    /\ mixins = [m \in MixinNames |-> NoMixin]
    /\ last = NoCall
    /\ steps = 0
    /\ pc = "run"

NextArith ==
    \/ pc = "run" /\ \E a \in Operands, b \in Operands : NumAdd(a, b)
    \/ pc = "run" /\ \E a \in Operands, b \in Operands : NumSub(a, b)
    \/ pc = "run" /\ \E a \in Operands, b \in Operands : NumMul(a, b)
    \/ pc = "run" /\ \E a \in Operands, b \in Operands : NumDiv(a, b)
    \/ pc = "run" /\ \E a \in Operands, b \in Operands : NumRem(a, b)
    \/ pc = "run" /\ \E x \in Operands, y \in Operands : Compare(x, y)

SpecArith == InitArith /\ [][NextArith]_vars

ArithOps == {"add", "sub", "mul", "div", "rem"}

\* C22: the result of add, sub, mul, div and rem is Machine exactly when
\* both operands are Machine and the exact result fits 64 bits (as every
\* result of these operands does), and Big when an operand is Big.
C22_MachineStaysMachine ==
    (last.op \in ArithOps /\ last.kind = "value") =>
        (last.val.tier = "Machine"
            <=> (last.self.tier = "Machine" /\ last.other.tier = "Machine"))

\* C23: on Machine operands (a non-zero divisor for div and rem) the result
\* is equal under == to the result on the operands promoted to Big, and
\* prints the same.
C23_PromotionChangesNothing ==
    (/\ last.op \in ArithOps
     /\ last.kind = "value"
     /\ last.self.tier = "Machine" /\ last.other.tier = "Machine") =>
        last.eq /\ last.same_print

\* C29: x == y exactly when partial_cmp(x, y) is Equal, and cmp agrees with
\* partial_cmp, for Numbers of either tier.
C29_ComparisonsAgreeAcrossTiers ==
    last.op = "compare" =>
        /\ last.eq <=> last.partial_cmp = "Equal"
        /\ last.cmp = last.partial_cmp

(***************************************************************************)
(* Expression reduction (src/src/value/parse.rs: Value::from_tokens,       *)
(* eat_op, single_value) over the intermediate values of an expression     *)
(***************************************************************************)
MaxItems == 5

\* enum IntermediateValue
IValue(v) == [kind |-> "value", val |-> v, op |-> "", inner |-> <<>>]
IOp(op) == [kind |-> "op", val |-> Null, op |-> op, inner |-> <<>>]
IWhitespace == [kind |-> "whitespace", val |-> Null, op |-> "", inner |-> <<>>]
IComma == [kind |-> "comma", val |-> Null, op |-> "", inner |-> <<>>]
IBracketed(t) == [kind |-> "bracketed", val |-> Null, op |-> "", inner |-> t]

BinaryOp(left, op, right) == [kind |-> "binop", s |-> op, items |-> <<left, right>>]
UnaryOp(op, v) == [kind |-> "unop", s |-> op, items |-> <<v>>]
\* Value::neg
Value_neg(v) == [kind |-> "neg", s |-> "", items |-> <<v>>]

\* the outcome of a step: a value, an error that is returned, or a panic
\* (todo!, unreachable!, an index out of bounds) that aborts the compilation
Reduced(v, iter) == [out |-> "value", val |-> v, iter |-> iter, err |-> ""]
Failure(msg) == [out |-> "error", val |-> Undef, iter |-> <<>>, err |-> msg]
Abort(msg) == [out |-> "panic", val |-> Undef, iter |-> <<>>, err |-> msg]

\* devour_whitespace on the intermediate values
RECURSIVE devour_whitespace(_)
devour_whitespace(iter) ==
    IF iter # <<>> /\ Head(iter).kind = "whitespace" THEN devour_whitespace(Tail(iter))
    ELSE iter

RECURSIVE Value_from_tokens(_)
RECURSIVE single_value(_)
RECURSIVE reduce(_, _, _)

\* Value::from_vec: from_tokens stops at todo!("Expected expression.") when
\* there is no token
Value_from_items(t) == IF t = <<>> THEN Abort("not yet implemented") ELSE Value_from_tokens(t)

\* parse.rs:307-310 and 377-383: the value of the group in brackets
bracketed_value(v) ==
    IF v.kind = "list" /\ v.brackets = "None" THEN Value_List(v.items, v.s, "Bracketed")
    ELSE Value_List(<<v>>, "Space", "Bracketed")

single_bracketed(r, iter) ==
    IF r.out # "value" THEN r ELSE Reduced(bracketed_value(r.val), iter)

single_neg(r) == IF r.out # "value" THEN r ELSE Reduced(Value_neg(r.val), r.iter)

single_value(iter) ==
    IF iter = <<>> THEN Failure("Expected expression.")
    ELSE CASE Head(iter).kind = "value" -> Reduced(Head(iter).val, Tail(iter))
           [] Head(iter).kind = "op" ->
                IF Head(iter).op = "Minus"
                THEN single_neg(single_value(devour_whitespace(Tail(iter))))
                ELSE Abort("not yet implemented")
           [] Head(iter).kind = "whitespace" -> Abort("unreachable")
           [] Head(iter).kind = "comma" -> Failure("Expected expression.")
           [] Head(iter).kind = "bracketed" ->
                single_bracketed(Value_from_items(Head(iter).inner), Tail(iter))

\* what eat_op leaves: the operand stack and the rest of the iterator
Stacked(space, iter) == [out |-> "value", space |-> space, iter |-> iter, err |-> ""]
NotStacked(r) == [out |-> r.out, space |-> <<>>, iter |-> <<>>, err |-> r.err]

\* the operator takes the value before it, when there is one
op_takes_left(op, space, right) ==
    IF space # <<>>
    THEN Stacked(Append(Front(space), BinaryOp(Last(space), op, right.val)), right.iter)
    ELSE Stacked(Append(space, UnaryOp(op, right.val)), right.iter)

\* the operand read, the operator is reduced
eat_reduced(op, space, right) ==
    IF right.out # "value" THEN NotStacked(right) ELSE op_takes_left(op, space, right)

\* parse.rs:234-243: Op::Minus followed by no whitespace
eat_minus_tight(space, right) ==
    IF right.out # "value" THEN NotStacked(right)
    ELSE IF right.val = Null THEN Stacked(Append(space, Ident("-null")), right.iter)
    ELSE Stacked(Append(space, UnaryOp("Minus", right.val)), right.iter)

\* parse.rs:260-271: the other binary operators
eat_binary(op, space, iter) ==
    IF space = <<>> THEN NotStacked(Failure("Expected expression."))
    ELSE eat_reduced(op, space, single_value(devour_whitespace(iter)))

\* parse.rs:206-244: Op::Plus and Op::Minus
eat_op(iter, op, space) ==
    CASE op = "Plus" -> eat_reduced("Plus", space, single_value(devour_whitespace(iter)))
      [] op = "Minus" ->
           IF devour_whitespace(iter) # iter
           THEN eat_reduced("Minus", space, single_value(devour_whitespace(iter)))
           ELSE eat_minus_tight(space, single_value(iter))
      [] OTHER -> eat_binary(op, space, iter)

\* the values before a comma always as a list
space_element_list(space) == Value_List(space, "Space", "None")

\* parse.rs:348-366: the values before a comma become one element
space_element(space) ==
    IF Len(space) = 1 THEN space[1] ELSE Value_List(space, "Space", "None")

\* parse.rs:392-420
from_tokens_end(space, comma) ==
    IF comma # <<>>
    THEN Value_List(IF space = <<>> THEN comma ELSE Append(comma, space_element(space)),
                    "Comma", "None")
    ELSE space_element(space)

reduce_op(r, comma) ==
    IF r.out # "value" THEN [out |-> r.out, val |-> Undef, iter |-> <<>>, err |-> r.err]
    ELSE reduce(r.iter, r.space, comma)

reduce_comma(iter, space, comma) ==
    IF space = <<>> THEN Abort("index out of bounds: the len is 0 but the index is 0")
    ELSE reduce(iter, <<>>, Append(comma, space_element(space)))

reduce_bracketed(r, iter, space, comma) ==
    IF r.out # "value" THEN r
    ELSE reduce(iter, Append(space, bracketed_value(r.val)), comma)

\* parse.rs:340-390: the loop over the intermediate values
reduce(iter, space, comma) ==
    IF iter = <<>> THEN Reduced(from_tokens_end(space, comma), <<>>)
    ELSE CASE Head(iter).kind = "value" ->
                reduce(Tail(iter), Append(space, Head(iter).val), comma)
           [] Head(iter).kind = "op" ->
                reduce_op(eat_op(Tail(iter), Head(iter).op, space), comma)
           [] Head(iter).kind = "whitespace" -> reduce(Tail(iter), space, comma)
           [] Head(iter).kind = "comma" -> reduce_comma(Tail(iter), space, comma)
           [] Head(iter).kind = "bracketed" ->
                IF Head(iter).inner = <<>>
                THEN reduce(Tail(iter),
                            Append(space, Value_List(<<>>, "Space", "Bracketed")), comma)
                ELSE reduce_bracketed(Value_from_items(Head(iter).inner),
                                      Tail(iter), space, comma)

\* Value::from_tokens on a non-empty expression
Value_from_tokens(t) == reduce(t, <<>>, <<>>)

\* the intermediate values expressions are made of: two values, `+`, `-`,
\* whitespace, a comma, and the groups `[]`, `[red]` and `[red, blue]`
ExprItems ==
    { IValue(Red), IValue(Blue), IOp("Plus"), IOp("Minus"), IWhitespace, IComma,
      IBracketed(<<>>), IBracketed(<<IValue(Red)>>),
      IBracketed(<<IValue(Red), IComma, IWhitespace, IValue(Blue)>>) }

\* a run of whitespace is one intermediate value
Expressions ==
    { t \in SeqsUpTo(ExprItems, MaxItems) :
        /\ t # <<>>
        /\ \A i \in 1..(Len(t) - 1) : ~(t[i] = IWhitespace /\ t[i + 1] = IWhitespace) }

FromTokensDone(t, r) ==
    /\ last' = [op |-> "from_tokens", err |-> r.err, args |-> <<t>>,
                out |-> r.out, val |-> r.val]
    /\ pc' = IF r.out = "panic" THEN "abort" ELSE "done"
    /\ UNCHANGED <<global, local, sel, mixins, steps>>

FromTokens(t) == FromTokensDone(t, Value_from_tokens(t))

InitExpr ==
    /\ global = EmptyScope
    /\ local = EmptyScope
    /\ sel = <<>>
    /\ mixins = [m \in MixinNames |-> NoMixin]
    /\ last = [op |-> "none", err |-> ""]
    /\ steps = 0
    /\ pc = "run"

NextExpr == pc = "run" /\ \E t \in Expressions : FromTokens(t)

SpecExpr == InitExpr /\ [][NextExpr]_vars

\* the expression read off its intermediate values: the values between the
\* commas, and the places of an operator
Kinds(t) == { t[i].kind : i \in 1..Len(t) }
RECURSIVE Segments(_, _)
Segments(t, seg) ==
    IF t = <<>> THEN (IF seg = <<>> THEN <<>> ELSE <<seg>>)
    ELSE IF Head(t).kind = "comma" THEN <<seg>> \o Segments(Tail(t), <<>>)
    ELSE IF Head(t).kind = "value" THEN Segments(Tail(t), Append(seg, Head(t).val))
    ELSE Segments(Tail(t), seg)
Element(seg) ==
    IF Len(seg) = 1 THEN seg[1]
    ELSE [kind |-> "list", s |-> "Space", items |-> seg, brackets |-> "None"]
PlainList(t) ==
    /\ Kinds(t) \subseteq {"value", "whitespace", "comma"}
    /\ Segments(t, <<>>) # <<>>
    /\ \A i \in 1..Len(Segments(t, <<>>)) : Segments(t, <<>>)[i] # <<>>

\* C24 as stated: `+` or `-` after a value, with whitespace on both sides or
\* on neither, is the binary operation on the value before and the value
\* after; at the start of the expression it is the unary operation on the
\* value after.
C24_PlusMinusBinaryOrUnary ==
    last.op = "from_tokens" =>
        \A o \in {"Plus", "Minus"}, a \in {Red, Blue}, b \in {Red, Blue} :
            /\ last.args[1] \in { <<IValue(a), IOp(o), IValue(b)>>,
                                  <<IValue(a), IWhitespace, IOp(o), IWhitespace, IValue(b)>> }
                   => (last.out = "value" /\ last.val = BinaryOp(a, o, b))
            /\ last.args[1] = <<IOp(o), IValue(b)>>
                   => (last.out = "value" /\ last.val = UnaryOp(o, b))

\* C25: an expression of values, whitespace and commas (a value before every
\* comma) evaluates to the unbracketed comma list of its elements when it has
\* a comma, each element the single value or the space list of the values
\* between two commas; else to the unbracketed space list of its values when
\* there are several; else to the single value itself.
C25_CommaListElseSpaceListElseValue ==
    (last.op = "from_tokens" /\ PlainList(last.args[1])) =>
        /\ last.out = "value"
        /\ last.val =
             IF "comma" \in Kinds(last.args[1])
             THEN [kind |-> "list", s |-> "Comma", brackets |-> "None",
                   items |-> [i \in 1..Len(Segments(last.args[1], <<>>)) |->
                                 Element(Segments(last.args[1], <<>>)[i])]]
             ELSE Element(Segments(last.args[1], <<>>)[1])

\* `red blue, red` is the comma list of the space list `red blue` and `red`
C25_Witness ==
    /\ last.op = "from_tokens"
    /\ last.args[1] = <<IValue(Red), IWhitespace, IValue(Blue), IComma, IValue(Red)>>
    /\ last.val.s = "Comma"
    /\ last.val.items[1].items = <<Red, Blue>>
    /\ last.val.items[2] = Red

GroupValue(inner) ==
    /\ last.out = "value"
    /\ last.val.kind = "list"
    /\ last.val.brackets = "Bracketed"
    /\ Len(last.val.items) >= 1
    /\ inner = <<IValue(Red)>> => (last.val.s = "Space" /\ last.val.items = <<Red>>)
    /\ Len(inner) > 1 => (last.val.s = "Comma" /\ last.val.items = <<Red, Blue>>)

\* C26: a `[...]` group evaluates to a bracketed list of at least one
\* element: an inner unbracketed list bracketed, any other inner value as
\* the one element of a bracketed space list; also as the operand of `+`.
C26_BracketsGiveNonEmptyList ==
    last.op = "from_tokens" =>
        \A g \in { i \in ExprItems : i.kind = "bracketed" } :
            /\ last.args[1] = <<g>> => GroupValue(g.inner)
            /\ last.args[1] = <<IOp("Plus"), g>> =>
                   (last.out = "value" /\ last.val.kind = "unop"
                    /\ last.val.items[1].brackets = "Bracketed"
                    /\ Len(last.val.items[1].items) >= 1)

\* C30: a comma with no value before it ends the evaluation with an error
\* or with a list; no expression of values, whitespace and commas aborts.
C30_NoReadOfEmptyStack ==
    (last.op = "from_tokens"
        /\ Kinds(last.args[1]) \subseteq {"value", "whitespace", "comma"}) =>
        last.out # "panic"

(***************************************************************************)
(* Unknown at-rules (src/src/atrule/unknown.rs)                            *)
(***************************************************************************)
MaxRaw == 3

\* the `for stmt in raw_body` loop: declarations go to body, the rest to rules
unknown_styles(raw_body) == SelectSeq(raw_body, LAMBDA stmt : stmt.t = "style")
unknown_rules(raw_body) == SelectSeq(raw_body, LAMBDA stmt : stmt.t # "style")

\* the body of the at-rule: under a parent selector the declarations are
\* wrapped in a ruleset of that selector
unknown_body(super_selector, raw_body) ==
    IF super_selector = <<>>
    THEN unknown_styles(raw_body) \o unknown_rules(raw_body)
    ELSE <<RuleSet(<<>>, super_selector, unknown_styles(raw_body))>>
             \o unknown_rules(raw_body)

\* UnknownAtRule::from_tokens from the `{` of the body on
UnknownAtRule_from_tokens(r, super_selector) ==
    [err |-> r.err, raw_body |-> r.stmts, scope |-> r.scope, root |-> r.root,
     body |-> IF r.err = "" THEN unknown_body(super_selector, r.stmts) ELSE <<>>]

UnknownStmts ==
    { SStyle("p", <<Var("a")>>), SStyle("q", <<Lit(Blue)>>), AssignA,
      SSel("t", <<SStyle("p", <<Lit(Red)>>)>>), SSel("u", <<>>) }

UnknownBodies == SeqsUpTo(UnknownStmts, MaxRaw)

UnknownDone(src, u) ==
    /\ last' = [op |-> "unknown", err |-> u.err, src |-> src,
                raw_body |-> u.raw_body, body |-> u.body]
    /\ local' = u.scope
    /\ global' = u.root
    /\ pc' = "done"
    /\ UNCHANGED <<sel, mixins, steps>>

\* `@name params { src }` met at the top level of the stylesheet
UnknownTop(src) ==
    /\ sel = <<>>
    /\ UnknownDone(src,
           UnknownAtRule_from_tokens(
               ruleset_eval(src, EvalState(local, global), sel, <<>>), sel))

\* `@name params { src }` met inside the ruleset of the selector sel
UnknownNested(src) ==
    /\ sel # <<>>
    /\ UnknownDone(src,
           UnknownAtRule_from_tokens(
               ruleset_eval(src, EvalState(local, global), sel, <<>>), sel))

InitUnknown ==
    /\ global = EmptyScope
    /\ local \in ScopeInits
    /\ sel \in {<<>>} \cup {<<s>> : s \in SelNames}
    /\ mixins = [m \in MixinNames |-> NoMixin]
    /\ last = [op |-> "none", err |-> ""]
    /\ steps = 0
    /\ pc = "run"

NextUnknown ==
    \/ pc = "run" /\ \E src \in UnknownBodies : UnknownTop(src)
    \/ pc = "run" /\ \E src \in UnknownBodies : UnknownNested(src)

SpecUnknown == InitUnknown /\ [][NextUnknown]_vars

\* the statements of the at-rule, those of the wrapping ruleset in its place
Emitted ==
    IF sel = <<>> THEN last.body
    ELSE Head(last.body).rules \o Tail(last.body)

\* C28: the body of an unknown at-rule holds every statement that evaluating
\* its source produced exactly once and in the order of the source, under an
\* empty and under a non-empty parent selector.
C28_BodyEmittedInSourceOrder ==
    (last.op = "unknown" /\ last.err = "") => Emitted = last.raw_body

(***************************************************************************)
(* The same mixin included twice (src/src/atrule/mixin.rs)                 *)
(***************************************************************************)
\* a call made on the stored mixin itself: its body iterator is left drained
mixin_left_drained(stored, called) == [stored EXCEPT !.body = <<>>]

\* eat_include has the scope by shared reference and Mixin::args and
\* Mixin::call take self by value: they work on the copy get_mixin returned,
\* the mixin stored in the scope is left as declared
mixin_left(stored, called) == stored

GlobalA == SVar("a", <<Lit(Solid)>>, FALSE, TRUE)

RepeatStmts == { ReadA, AssignA, GlobalA, SContent, SSel("t", <<ReadA>>) }

RepeatBodies == SeqsUpTo(RepeatStmts, MaxBody)

RepeatArgs ==
    { CallArgs(<<>>, <<>>),
      CallArgs(<<<<Lit(Blue)>>>>, <<>>),
      CallArgs(<<<<Lit(Blue)>>, <<Lit(Solid)>>>>, <<>>),
      CallArgs(<<>>, <<Named("a", <<Lit(Solid)>>)>>) }

RepeatBlock == <<SStyle("q", <<Var("a")>>)>>

\* `@mixin m(params) { body }` inside the ruleset
RepeatDecl(m, params, body) ==
    /\ ~mixins[m].defined
    /\ mixins' = [mixins EXCEPT ![m] = decl_from_tokens(local, params, body)]
    /\ last' = [op |-> "mixin", err |-> ""]
    /\ pc' = "declared"
    /\ UNCHANGED <<global, local, sel, steps>>

\* what an `@include` leaves behind
Included(m, op, args, has_block, block, first, i) ==
    /\ last' = [op |-> op, err |-> i.err, stmts |-> i.stmts, args |-> args,
                has_block |-> has_block, block |-> block,
                preglobal |-> global, stored |-> mixins[m], first |-> first]
    /\ mixins' = [mixins EXCEPT ![m] = mixin_left(@, i.bound)]
    /\ local' = i.scope
    /\ global' = i.root
    /\ pc' = IF i.err # "" THEN "halt" ELSE IF op = "include" THEN "once" ELSE "done"
    /\ UNCHANGED <<sel, steps>>

\* `@include m(args);` or `@include m(args) { block }`
IncludeFirst(m, args, has_block, block) ==
    /\ pc = "declared"
    /\ Included(m, "include", args, has_block, block, [op |-> "none", err |-> ""],
           eat_include(mixins[m], args, has_block, block, local, global, sel))

\* the same `@include` written once more right after the first
IncludeAgain(m) ==
    /\ pc = "once"
    /\ Included(m, "again", last.args, last.has_block, last.block, last,
           eat_include(mixins[m], last.args, last.has_block, last.block,
                       local, global, sel))

InitRepeat ==
    /\ global \in ScopeInits
    /\ local \in ScopeInits
    /\ sel \in {<<s>> : s \in SelNames}
    /\ mixins = [m \in MixinNames |-> NoMixin]
    /\ last = [op |-> "none", err |-> ""]
    /\ steps = 0
    /\ pc = "run"

NextRepeat ==
    \/ pc = "run" /\ \E m \in MixinNames, params \in ParamLists, body \in RepeatBodies :
           RepeatDecl(m, params, body)
    \/ \E m \in MixinNames, args \in RepeatArgs : IncludeFirst(m, args, FALSE, <<>>)
    \/ \E m \in MixinNames, args \in RepeatArgs : IncludeFirst(m, args, TRUE, RepeatBlock)
    \/ \E m \in MixinNames : IncludeAgain(m)

SpecRepeat == InitRepeat /\ [][NextRepeat]_vars

\* the second of two equal includes of m has just been evaluated
IncludedTwice == last.op = "again"

\* C27: an `@include` leaves the stored mixin as it was declared; the second
\* of two includes of one mixin with the same arguments under the same
\* selector, the global scope being what it was before the first, ends as
\* the first did and produces the same statements.
C27_RepeatedIncludeIsTheSame ==
    /\ last.op \in {"include", "again"} => \A m \in MixinNames : mixins[m] = last.stored
    /\ (IncludedTwice /\ last.preglobal = last.first.preglobal) =>
           (last.err = last.first.err /\ last.stmts = last.first.stmts)

\* `@mixin m($a: blue, $b) { p: $a; t { p: $a; } }` included twice with two
\* arguments: both includes give the declaration and the nested rule
C27_Witness ==
    /\ IncludedTwice /\ last.err = ""
    /\ last.preglobal = last.first.preglobal
    /\ Len(last.stored.args) = 2 /\ last.stored.args[1].has_default
    /\ Len(last.args.pos) = 2
    /\ Len(last.stored.body) = 2
    /\ Len(last.stmts) = 2 /\ last.stmts[2].t = "ruleset"
    /\ last.stmts = last.first.stmts

====
